---- MODULE Spec2Model ----
(***************************************************************************)
(* A model of the imgkit (bun-image-turbo) native core: the Resize Engine  *)
(* (resize.rs), the JPEG shrink-on-load decoder (decode/jpeg.rs), the Crop *)
(* Engine (crop.rs) and the Transform Pipeline (transform.rs).             *)
(*                                                                         *)
(* Option<T> is modelled as a sequence: None is <<>> and Some(v) is <<v>>. *)
(* A Result is a record with an ok flag.  f64 arithmetic on u32 operands   *)
(* is modelled with exact integer arithmetic; for operands up to 12 the    *)
(* IEEE-754 double results of every expression modelled here (quotient,    *)
(* product, round, truncation, comparison) coincide with the exact ones    *)
(* (the smallest operands where they differ are beyond 12, for example     *)
(* round(27 * (13 / 6))).                                                  *)
(***************************************************************************)
EXTENDS Integers, Sequences, FiniteSets, TLC

(***************************************************************************)
(* Bounds of the model.                                                    *)
(***************************************************************************)
\* largest source / target dimension of the Resize Engine model
MaxDim == 6
\* largest source / target dimension of the JPEG shrink-on-load model
MaxJpegDim == 16
\* width of the input images of the Transform Pipeline model
MaxSrc == 8

None == <<>>
Some(v) == <<v>>
IsSome(o) == o # <<>>
IsNone(o) == o = <<>>
Unwrap(o) == o[1]
UnwrapOr(o, d) == IF o = <<>> THEN d ELSE o[1]
OptionOf(S) == {<<>>} \cup {<<v>> : v \in S}

Min(a, b) == IF a <= b THEN a ELSE b
Max(a, b) == IF a >= b THEN a ELSE b

\* types.rs: the closed enums
ResizeFilter == {"Nearest", "Bilinear", "CatmullRom", "Mitchell", "Lanczos3"}
FitMode == {"Cover", "Contain", "Fill", "Inside", "Outside"}
\* image::DynamicImage variants the 8-bit pipeline handles
ColorType == {"L8", "La8", "Rgb8", "Rgba8"}
CropGravity == {"Center", "North", "South", "East", "West", "NorthWest",
                "NorthEast", "SouthWest", "SouthEast"}
\* the output formats of ImageFormat
ImageFormat == {"Jpeg", "Png", "WebP", "Gif", "Bmp", "Ico", "Tiff", "Heic",
                "Avif"}

\* (a as f64 / b as f64).round() as u32 for a >= 0, b > 0: round half away
\* from zero
RoundDiv(a, b) == (2 * a + b) \div (2 * b)

\* a Result<_, ImageError>
Ok(v) == [ok |-> TRUE, val |-> v, err |-> "-"]
Err(e) == [ok |-> FALSE, val |-> <<>>, err |-> e]

\* a raster: dimensions, channel layout and the pixel content, the content
\* being identified by the sequence of pixel operations that produced it
Raster(w, h, color, pix) == [w |-> w, h |-> h, color |-> color, pix |-> pix]
has_alpha(img) == img.color \in {"La8", "Rgba8"}

(***************************************************************************)
(* resize.rs                                                               *)
(***************************************************************************)

\* scale_factor as the rational n/d; Lt(sf, a, b) is  sf < a/b
Ratio(n, d) == [n |-> n, d |-> d]
Lt(sf, a, b) == sf.n * b < a * sf.d
RatioMin(p, q) == IF p.n * q.d <= q.n * p.d THEN p ELSE q

\* get_resize_algorithm with the 0.25 and 0.5 thresholds taken inclusively
get_resize_algorithm_off(filter, scale_factor) ==
  IF filter = Some("Nearest") THEN "Nearest"
  ELSE IF filter = Some("Bilinear") THEN "Bilinear"
  ELSE IF filter = Some("CatmullRom") THEN "CatmullRom"
  ELSE IF filter = Some("Mitchell") THEN "Mitchell"
  ELSE IF filter = Some("Lanczos3") THEN "Lanczos3"
  ELSE IF ~Lt(Ratio(1, 4), scale_factor.n, scale_factor.d) THEN "Box"
  ELSE IF ~Lt(Ratio(1, 2), scale_factor.n, scale_factor.d) THEN "Bilinear"
  ELSE IF Lt(scale_factor, 3, 4) THEN "CatmullRom"
  ELSE "Lanczos3"

get_resize_algorithm(filter, scale_factor) ==
  IF filter = Some("Nearest") THEN "Nearest"
  ELSE IF filter = Some("Bilinear") THEN "Bilinear"
  ELSE IF filter = Some("CatmullRom") THEN "CatmullRom"
  ELSE IF filter = Some("Mitchell") THEN "Mitchell"
  ELSE IF filter = Some("Lanczos3") THEN "Lanczos3"
  ELSE IF Lt(scale_factor, 1, 4) THEN "Box"
  ELSE IF Lt(scale_factor, 1, 2) THEN "Bilinear"
  ELSE IF Lt(scale_factor, 3, 4) THEN "CatmullRom"
  ELSE "Lanczos3"

\* src_ratio > target_ratio, where target_ratio = w / h is +inf or NaN for
\* h = 0 and the comparison is then false
SrcRatioGreater(src_width, src_height, w, h) ==
  h # 0 /\ src_width * h > w * src_height

\* the Cover / Contain arm (both branches of the matches! are the same code)
CoverDims(src_width, src_height, w, h) ==
  IF SrcRatioGreater(src_width, src_height, w, h)
  THEN <<Max(w, 1), Max(RoundDiv(w * src_height, src_width), 1)>>
  ELSE <<Max(RoundDiv(h * src_width, src_height), 1), Max(h, 1)>>

\* (src * ratio).round() for ratio = min or max of w/src_width, h/src_height
ScaleBy(src_width, src_height, num, den) ==
  <<RoundDiv(src_width * num, den), RoundDiv(src_height * num, den)>>

\* InsideDims with max in place of min for the uniform ratio
InsideDims_max_ratio(src_width, src_height, w, h) ==
  IF src_width <= w /\ src_height <= h
  THEN <<src_width, src_height>>
  ELSE IF w * src_height >= h * src_width
       THEN ScaleBy(src_width, src_height, w, src_width)
       ELSE ScaleBy(src_width, src_height, h, src_height)

InsideDims(src_width, src_height, w, h) ==
  IF src_width <= w /\ src_height <= h
  THEN <<src_width, src_height>>
  ELSE IF w * src_height <= h * src_width
       THEN ScaleBy(src_width, src_height, w, src_width)
       ELSE ScaleBy(src_width, src_height, h, src_height)

OutsideDims(src_width, src_height, w, h) ==
  IF src_width >= w /\ src_height >= h
  THEN <<src_width, src_height>>
  ELSE IF w * src_height >= h * src_width
       THEN ScaleBy(src_width, src_height, w, src_width)
       ELSE ScaleBy(src_width, src_height, h, src_height)

calculate_dimensions(src_width, src_height, target_width, target_height, fit) ==
  LET fit_mode == UnwrapOr(fit, "Cover") IN
  IF IsSome(target_width) /\ IsSome(target_height) THEN
    LET w == Unwrap(target_width)
        h == Unwrap(target_height) IN
    CASE fit_mode = "Fill" -> Ok(<<w, h>>)
      [] fit_mode \in {"Cover", "Contain"} ->
           Ok(CoverDims(src_width, src_height, w, h))
      [] fit_mode = "Inside" -> Ok(InsideDims(src_width, src_height, w, h))
      [] fit_mode = "Outside" -> Ok(OutsideDims(src_width, src_height, w, h))
  ELSE IF IsSome(target_width) THEN
    LET w == Unwrap(target_width) IN
    Ok(<<w, Max(RoundDiv(src_height * w, src_width), 1)>>)
  ELSE IF IsSome(target_height) THEN
    LET h == Unwrap(target_height) IN
    Ok(<<Max(RoundDiv(src_width * h, src_height), 1), h>>)
  ELSE Err("InvalidDimensions")

\* scale_factor = min(dst_width / src_width, dst_height / src_height)
ScaleFactor(src_width, src_height, dst_width, dst_height) ==
  RatioMin(Ratio(dst_width, src_width), Ratio(dst_height, src_height))

\* the guard of the multi-step path
UseMultiStep(options, scale_factor) ==
  Lt(scale_factor, 3, 4) /\ IsNone(options.filter)

\* SkipResize with the height compared to dst_width
SkipResize_wrong_axis(src_width, src_height, dst_width, dst_height) ==
  src_width = dst_width /\ src_height = dst_width

\* the guard of the skip-resize return
SkipResize(src_width, src_height, dst_width, dst_height) ==
  src_width = dst_width /\ src_height = dst_height

\* KeepHalving with || in place of &&
KeepHalving_either(current_width, current_height, dst_width, dst_height) ==
  current_width > dst_width * 2 \/ current_height > dst_height * 2

\* the guard of the halving loop of resize_multi_step
KeepHalving(current_width, current_height, dst_width, dst_height) ==
  current_width > dst_width * 2 /\ current_height > dst_height * 2

\* resize_rgb / resize_rgba: one resampling pass to (dst_width, dst_height);
\* the output is Rgb8, or Rgba8 on the premultiplied-alpha path
ResamplePass(img, dst_width, dst_height, alg) ==
  Raster(dst_width, dst_height,
         IF has_alpha(img) THEN "Rgba8" ELSE "Rgb8",
         Append(img.pix, alg))

\* what one pass is recorded as
PassRecord(img, dst_width, dst_height, alg) ==
  [alg |-> alg, sw |-> img.w, sh |-> img.h, dw |-> dst_width,
   dh |-> dst_height, premultiply |-> has_alpha(img)]

(***************************************************************************)
(* decode/jpeg.rs, decode/mod.rs                                           *)
(***************************************************************************)

\* min(hshrink, vshrink) >= k with max in place of min
ShrinkAtLeast_max(k, src_width, src_height, tw, th) ==
  src_width >= k * tw \/ src_height >= k * th

\* shrink >= k for shrink = min(src_width / tw, src_height / th); a zero tw
\* or th makes its quotient +inf
ShrinkAtLeast(k, src_width, src_height, tw, th) ==
  src_width >= k * tw /\ src_height >= k * th

\* (src as f64 * (t as f64 / d as f64)) as u32: the truncating cast
TruncScale(src, t, d) == (src * t) \div d

calculate_jpeg_scale_factor(src_width, src_height, target_width, target_height) ==
  IF IsNone(target_width) /\ IsNone(target_height) THEN <<1, 1>>
  ELSE
    LET tw == IF IsSome(target_width) THEN Unwrap(target_width)
              ELSE TruncScale(src_width, Unwrap(target_height), src_height)
        th == IF IsSome(target_height) THEN Unwrap(target_height)
              ELSE TruncScale(src_height, Unwrap(target_width), src_width) IN
    IF ShrinkAtLeast(8, src_width, src_height, tw, th) THEN <<1, 8>>
    ELSE IF ShrinkAtLeast(4, src_width, src_height, tw, th) THEN <<1, 4>>
    ELSE IF ShrinkAtLeast(2, src_width, src_height, tw, th) THEN <<1, 2>>
    ELSE <<1, 1>>

\* turbojpeg::ScalingFactor::scale, libjpeg-turbo's TJSCALED: the ceiling of
\* dimension * num / denom
ScalingFactorScale(dimension, scaling) ==
  (dimension * scaling[1] + scaling[2] - 1) \div scaling[2]

\* the raster decode_jpeg_with_shrink produces from a JPEG whose header gives
\* (src_width, src_height)
decode_jpeg_with_shrink(src_width, src_height, target_width, target_height) ==
  LET scaling == calculate_jpeg_scale_factor(src_width, src_height,
                                             target_width, target_height) IN
  Raster(ScalingFactorScale(src_width, scaling),
         ScalingFactorScale(src_height, scaling), "Rgb8", <<>>)

\* the raster decode_jpeg_fast produces
decode_jpeg_fast(src_width, src_height) ==
  Raster(src_width, src_height, "Rgb8", <<>>)

\* the raster decode_image_with_target produces from a well-formed input
\* [format, w, h, color]
decode_image_with_target(data, target_width, target_height) ==
  IF data.format = "jpeg" THEN
    IF IsSome(target_width) \/ IsSome(target_height)
    THEN decode_jpeg_with_shrink(data.w, data.h, target_width, target_height)
    ELSE decode_jpeg_fast(data.w, data.h)
  ELSE Raster(data.w, data.h, data.color, <<>>)


\* the halving loop of resize_multi_step, run to its end
RECURSIVE MultiStepHalve(_, _, _)
MultiStepHalve(current_img, dst_width, dst_height) ==
  IF KeepHalving(current_img.w, current_img.h, dst_width, dst_height)
  THEN MultiStepHalve(ResamplePass(current_img, current_img.w \div 2,
                                   current_img.h \div 2, "Box"),
                      dst_width, dst_height)
  ELSE current_img

resize_multi_step(img, dst_width, dst_height) ==
  ResamplePass(MultiStepHalve(img, dst_width, dst_height),
               dst_width, dst_height, "Bilinear")

\* resize_image as a whole, its resampler not failing
resize_image(img, options) ==
  LET dims == calculate_dimensions(img.w, img.h, options.width,
                                   options.height, options.fit) IN
  IF ~dims.ok THEN Err(dims.err)
  ELSE
    LET dst_width == dims.val[1]
        dst_height == dims.val[2]
        scale_factor == ScaleFactor(img.w, img.h, dst_width, dst_height) IN
    IF SkipResize(img.w, img.h, dst_width, dst_height) THEN Ok(img)
    ELSE IF UseMultiStep(options, scale_factor)
    THEN Ok(resize_multi_step(img, dst_width, dst_height))
    ELSE Ok(ResamplePass(img, dst_width, dst_height,
                         get_resize_algorithm(options.filter, scale_factor)))

(***************************************************************************)
(* crop.rs.  A string is a sequence of one-character strings.              *)
(***************************************************************************)

\* SaturatingSub returning the distance when the crop exceeds the source
SaturatingSub_abs(a, b) == IF a >= b THEN a - b ELSE b - a

SaturatingSub(a, b) == IF a >= b THEN a - b ELSE 0

calculate_gravity_crop(src_width, src_height, crop_width, crop_height, gravity) ==
  LET dx == SaturatingSub(src_width, crop_width)
      dy == SaturatingSub(src_height, crop_height) IN
  CASE gravity = "Center" -> <<dx \div 2, dy \div 2>>
    [] gravity = "North" -> <<dx \div 2, 0>>
    [] gravity = "South" -> <<dx \div 2, dy>>
    [] gravity = "East" -> <<dx, dy \div 2>>
    [] gravity = "West" -> <<0, dy \div 2>>
    [] gravity = "NorthWest" -> <<0, 0>>
    [] gravity = "NorthEast" -> <<dx, 0>>
    [] gravity = "SouthWest" -> <<0, dy>>
    [] gravity = "SouthEast" -> <<dx, dy>>

Digits == <<"0", "1", "2", "3", "4", "5", "6", "7", "8", "9">>
IsDigit(c) == \E i \in 1..10 : Digits[i] = c
DigitValue(c) == (CHOOSE i \in 1..10 : Digits[i] = c) - 1

\* str::split(':'): the parts between the separators
RECURSIVE SplitColon(_)
SplitColon(str) ==
  IF \A i \in 1..Len(str) : str[i] # ":" THEN <<str>>
  ELSE LET k == CHOOSE i \in 1..Len(str) :
                  str[i] = ":" /\ \A j \in 1..(i - 1) : str[j] # ":" IN
       <<SubSeq(str, 1, k - 1)>> \o SplitColon(SubSeq(str, k + 1, Len(str)))

\* str::trim for the space character
RECURSIVE Trim(_)
Trim(str) ==
  IF str = <<>> THEN str
  ELSE IF Head(str) = " " THEN Trim(Tail(str))
  ELSE IF str[Len(str)] = " " THEN Trim(SubSeq(str, 1, Len(str) - 1))
  ELSE str

RECURSIVE DecimalValue(_)
DecimalValue(str) ==
  IF str = <<>> THEN 0
  ELSE 10 * DecimalValue(SubSeq(str, 1, Len(str) - 1))
         + DigitValue(str[Len(str)])

\* str::parse::<u32>: an optional '+' and at least one digit (values within
\* u32 here, the strings being short)
ParseU32(str) ==
  LET digits == IF str # <<>> /\ Head(str) = "+" THEN Tail(str) ELSE str IN
  IF digits # <<>> /\ \A i \in 1..Len(digits) : IsDigit(digits[i])
  THEN Some(DecimalValue(digits))
  ELSE None

\* parse_aspect_ratio without the zero check
parse_aspect_ratio_zero_ok(ratio) ==
  LET parts == SplitColon(ratio) IN
  IF Len(parts) # 2 THEN None
  ELSE LET w == ParseU32(Trim(parts[1]))
           h == ParseU32(Trim(parts[2])) IN
       IF IsNone(w) \/ IsNone(h) THEN None
       ELSE Some(<<Unwrap(w), Unwrap(h)>>)

parse_aspect_ratio(ratio) ==
  LET parts == SplitColon(ratio) IN
  IF Len(parts) # 2 THEN None
  ELSE LET w == ParseU32(Trim(parts[1]))
           h == ParseU32(Trim(parts[2])) IN
       IF IsNone(w) \/ IsNone(h) THEN None
       ELSE IF Unwrap(w) = 0 \/ Unwrap(h) = 0 THEN None
       ELSE Some(<<Unwrap(w), Unwrap(h)>>)

\* calculate_aspect_ratio_crop with the comparison of the ratios reversed
calculate_aspect_ratio_crop_reversed(src_width, src_height, aspect_w, aspect_h) ==
  IF src_width * aspect_h < aspect_w * src_height
  THEN <<Max(Min(RoundDiv(src_height * aspect_w, aspect_h), src_width), 1),
         src_height>>
  ELSE <<src_width,
         Max(Min(RoundDiv(src_width * aspect_h, aspect_w), src_height), 1)>>

calculate_aspect_ratio_crop(src_width, src_height, aspect_w, aspect_h) ==
  IF src_width * aspect_h > aspect_w * src_height
  THEN <<Max(Min(RoundDiv(src_height * aspect_w, aspect_h), src_width), 1),
         src_height>>
  ELSE <<src_width,
         Max(Min(RoundDiv(src_width * aspect_h, aspect_w), src_height), 1)>>

\* CropRegion with a missing width or height of an explicit-coordinate crop
\* defaulting to the source extent
CropRegion_defaults(src_width, src_height, options) ==
  IF IsSome(options.aspect_ratio) THEN
    LET aspect == parse_aspect_ratio(Unwrap(options.aspect_ratio)) IN
    IF IsNone(aspect) THEN Err("InvalidDimensions")
    ELSE
      LET c == calculate_aspect_ratio_crop(src_width, src_height,
                                           Unwrap(aspect)[1], Unwrap(aspect)[2])
          g == calculate_gravity_crop(src_width, src_height, c[1], c[2],
                                      UnwrapOr(options.gravity, "Center")) IN
      Ok(<<g[1], g[2], c[1], c[2]>>)
  ELSE IF IsSome(options.x) \/ IsSome(options.y) THEN
    Ok(<<UnwrapOr(options.x, 0), UnwrapOr(options.y, 0),
         UnwrapOr(options.width, src_width),
         UnwrapOr(options.height, src_height)>>)
  ELSE IF IsSome(options.width) \/ IsSome(options.height) THEN
    LET crop_w == UnwrapOr(options.width, src_width)
        crop_h == UnwrapOr(options.height, src_height)
        g == calculate_gravity_crop(src_width, src_height, crop_w, crop_h,
                                    UnwrapOr(options.gravity, "Center")) IN
    Ok(<<g[1], g[2], crop_w, crop_h>>)
  ELSE Err("InvalidDimensions")

\* the region (x, y, crop_width, crop_height) crop_image determines, before
\* its bounds validation
CropRegion(src_width, src_height, options) ==
  IF IsSome(options.aspect_ratio) THEN
    LET aspect == parse_aspect_ratio(Unwrap(options.aspect_ratio)) IN
    IF IsNone(aspect) THEN Err("InvalidDimensions")
    ELSE
      LET c == calculate_aspect_ratio_crop(src_width, src_height,
                                           Unwrap(aspect)[1], Unwrap(aspect)[2])
          g == calculate_gravity_crop(src_width, src_height, c[1], c[2],
                                      UnwrapOr(options.gravity, "Center")) IN
      Ok(<<g[1], g[2], c[1], c[2]>>)
  ELSE IF IsSome(options.x) \/ IsSome(options.y) THEN
    IF IsNone(options.width) \/ IsNone(options.height)
    THEN Err("InvalidDimensions")
    ELSE Ok(<<UnwrapOr(options.x, 0), UnwrapOr(options.y, 0),
              Unwrap(options.width), Unwrap(options.height)>>)
  ELSE IF IsSome(options.width) \/ IsSome(options.height) THEN
    LET crop_w == UnwrapOr(options.width, src_width)
        crop_h == UnwrapOr(options.height, src_height)
        g == calculate_gravity_crop(src_width, src_height, crop_w, crop_h,
                                    UnwrapOr(options.gravity, "Center")) IN
    Ok(<<g[1], g[2], crop_w, crop_h>>)
  ELSE Err("InvalidDimensions")

\* crop_image without the clamp of the crop size to the source
crop_image_unclamped(img, options) ==
  LET region == CropRegion(img.w, img.h, options) IN
  IF ~region.ok THEN region
  ELSE
    LET x == region.val[1]
        y == region.val[2] IN
    IF x >= img.w \/ y >= img.h THEN Err("InvalidDimensions")
    ELSE IF region.val[3] = 0 \/ region.val[4] = 0
    THEN Err("InvalidDimensions")
    ELSE Ok(Raster(region.val[3], region.val[4], img.color,
                   Append(img.pix, "crop")))

crop_image(img, options) ==
  LET region == CropRegion(img.w, img.h, options) IN
  IF ~region.ok THEN region
  ELSE
    LET x == region.val[1]
        y == region.val[2] IN
    IF x >= img.w \/ y >= img.h THEN Err("InvalidDimensions")
    ELSE
      LET actual_width == Min(region.val[3], img.w - x)
          actual_height == Min(region.val[4], img.h - y) IN
      IF actual_width = 0 \/ actual_height = 0 THEN Err("InvalidDimensions")
      ELSE Ok(Raster(actual_width, actual_height, img.color,
                     Append(img.pix, "crop")))

(***************************************************************************)
(* encode.rs                                                               *)
(***************************************************************************)

\* encode_to_format: the formats with an encoder and the unsupported ones
encode_to_format(img, format) ==
  IF format \in {"Jpeg", "Png", "WebP", "Gif", "Bmp"}
  THEN Ok([format |-> format, img |-> img])
  ELSE Err("UnsupportedFormat")

encode_png(img) == Ok([format |-> "Png", img |-> img])

(***************************************************************************)
(* transform.rs                                                            *)
(***************************************************************************)

\* DecodeTarget passing the resize dimensions to the decoder under a crop too
DecodeTarget_ignores_crop(options) ==
  IF IsNone(options.resize) THEN <<None, None>>
  ELSE <<Unwrap(options.resize).width, Unwrap(options.resize).height>>

\* (target_width, target_height) handed to decode_image_with_target
DecodeTarget(options) ==
  IF IsSome(options.crop) THEN <<None, None>>
  ELSE IF IsNone(options.resize) THEN <<None, None>>
  ELSE <<Unwrap(options.resize).width, Unwrap(options.resize).height>>

\* NextStage with the crop and resize blocks exchanged
NextStage_resize_first(stage) ==
  CASE stage = "decode" -> "resize"
    [] stage = "resize" -> "crop"
    [] stage = "crop" -> "rotate"
    [] stage = "rotate" -> "flip_h"
    [] stage = "flip_h" -> "flip_v"
    [] stage = "flip_v" -> "grayscale"
    [] stage = "grayscale" -> "blur"
    [] stage = "blur" -> "sharpen"
    [] stage = "sharpen" -> "brightness"
    [] stage = "brightness" -> "contrast"
    [] stage = "contrast" -> "encode"
    [] stage = "encode" -> "done"

\* the block of transform_image that follows each block, in program order
NextStage(stage) ==
  CASE stage = "decode" -> "crop"
    [] stage = "crop" -> "resize"
    [] stage = "resize" -> "rotate"
    [] stage = "rotate" -> "flip_h"
    [] stage = "flip_h" -> "flip_v"
    [] stage = "flip_v" -> "grayscale"
    [] stage = "grayscale" -> "blur"
    [] stage = "blur" -> "sharpen"
    [] stage = "sharpen" -> "brightness"
    [] stage = "brightness" -> "contrast"
    [] stage = "contrast" -> "encode"
    [] stage = "encode" -> "done"

\* AfterStage going on to the next block after an Err
AfterStage_swallows(stage, result) == NextStage(stage)

\* where control goes after a fallible call: the `?` returns on Err
AfterStage(stage, result) ==
  IF result.ok THEN NextStage(stage) ELSE "done"

\* a pixel operation of the image crate that keeps size and layout
PixelOp(img, op) == Raster(img.w, img.h, img.color, Append(img.pix, op))

\* rotate90 / rotate180 / rotate270; any other value leaves the image alone
Rotate(img, degrees) ==
  IF degrees \in {90, -270, 270, -90}
  THEN Raster(img.h, img.w, img.color, Append(img.pix, "rotate"))
  ELSE IF degrees \in {180, -180} THEN PixelOp(img, "rotate")
  ELSE img

\* DynamicImage::ImageLuma8(img.to_luma8())
Grayscale(img) == Raster(img.w, img.h, "L8", Append(img.pix, "grayscale"))


ResizeOptionsSet ==
  [width : OptionOf(0..MaxDim), height : OptionOf(0..MaxDim),
   filter : OptionOf(ResizeFilter), fit : OptionOf(FitMode)]

VARIABLES
  \* resize_image: its input raster and options, its position, the working
  \* raster, the computed target, the resampling passes run, its result
  rimg, ropts, rpc, rcur, rdst, rpasses, rresult

resizeVars == <<rimg, ropts, rpc, rcur, rdst, rpasses, rresult>>

VARIABLES
  \* a JPEG decode: the header's dimensions, the target handed to the
  \* decoder, its position, the scaling factor chosen, its result
  jsrc, jtarget, jpc, jscale, jresult

jpegVars == <<jsrc, jtarget, jpc, jscale, jresult>>

VARIABLES
  \* transform_image: its options, its input, the working raster, its
  \* position, the blocks executed with their outcomes, its result, and the
  \* target dimensions it handed to the decoder
  topts, tin, timg, tpc, tlog, tresult, decodeTarget

transformVars == <<topts, tin, timg, tpc, tlog, tresult, decodeTarget>>

VARIABLES
  \* decode_image_with_target: the input (container format and the header's
  \* dimensions), the target, whether the build has the heic feature, its
  \* position, the pixel buffers allocated and pixel decodes started, its
  \* result
  din, dtarget, dheic, dpc, dlog, dresult

decodeVars == <<din, dtarget, dheic, dpc, dlog, dresult>>

VARIABLES
  \* crop_image: its input raster and options, its position, the parsed
  \* aspect ratio, the crop region determined, its result
  cimg, copts, cpc, caspect, cregion, cresult

cropVars == <<cimg, copts, cpc, caspect, cregion, cresult>>

VARIABLES
  \* a header parser: the file it is given (its structure, and its bytes),
  \* which parser runs, its position, its cursor, what it has gathered, the
  \* highest offset it has read, its result
  hfile, hdata, hparser, hpc, hpos, hacc, hmax, hresult

headerVars == <<hfile, hdata, hparser, hpc, hpos, hacc, hmax, hresult>>

VARIABLES
  xopts,    \* the ExifWriteOptions handed to build_exif_bytes
  xbytes,   \* the EXIF bytes built
  xpc,      \* "idle", "build", "parse" or "done"
  xread     \* the orientation read back from the bytes
exifVars == <<xopts, xbytes, xpc, xread>>

VARIABLES
  kin,      \* the input of thumbhash: format and header dimensions
  kasync,   \* whether thumbhash (async) or thumbhash_sync was called
  kpc,      \* "idle", "call" or "done"
  khanded,  \* the raster handed to the ThumbHash encoder, if any
  kresult   \* the result returned
thumbVars == <<kin, kasync, kpc, khanded, kresult>>

VARIABLES
  npixels,  \* the RGB bytes of the decoded image, indexed from 0
  ndims,    \* its <<width, height>>
  nopts,    \* the TensorOptions: dtype, layout, normalization
  npc,      \* "idle", "start", "scope" (workers running) or "returned"
  nout,     \* the output buffer, indexed from 0
  nwpos,    \* for each channel worker, the next index of its plane
  nwrote,   \* for each output index, the workers that wrote it, in order
  nresult   \* the tensor returned
tensorVars == <<npixels, ndims, nopts, npc, nout, nwpos, nwrote, nresult>>

VARIABLES
  \* resize_sync: its input [format, w, h, color] and options, its position,
  \* the raster the decoder produced, its result
  sin, sopts, spc, sdecoded, sresult

syncVars == <<sin, sopts, spc, sdecoded, sresult>>

vars == <<resizeVars, jpegVars, transformVars, decodeVars, cropVars, headerVars, exifVars, thumbVars, tensorVars, syncVars>>

\* the state of the transform model when transform_image is not running
TransformIdle ==
  /\ topts = <<>>
  /\ tin = <<>>
  /\ timg = None
  /\ tpc = "idle"
  /\ tlog = <<>>
  /\ tresult = None
  /\ decodeTarget = <<None, None>>

\* the state of the JPEG decode model when no decode is running
JpegIdle ==
  /\ jsrc = <<1, 1>>
  /\ jtarget = [width |-> None, height |-> None]
  /\ jpc = "idle"
  /\ jscale = <<1, 1>>
  /\ jresult = None

\* the state of the resize model when resize_image is not running
ResizeIdle ==
  /\ rimg = Raster(1, 1, "Rgb8", <<>>)
  /\ ropts = [width |-> None, height |-> None, filter |-> None, fit |-> None]
  /\ rpc = "idle"
  /\ rcur = Raster(1, 1, "Rgb8", <<>>)
  /\ rdst = <<0, 0>>
  /\ rpasses = <<>>
  /\ rresult = None

\* the state of the decode model when decode_image_with_target is not running
DecodeIdle ==
  /\ din = [format |-> "png", w |-> 1, h |-> 1, color |-> "Rgb8"]
  /\ dtarget = [width |-> None, height |-> None]
  /\ dheic = FALSE
  /\ dpc = "idle"
  /\ dlog = <<>>
  /\ dresult = None

\* the state of the crop model when crop_image is not running
CropIdle ==
  /\ cimg = Raster(1, 1, "Rgb8", <<>>)
  /\ copts = [x |-> None, y |-> None, width |-> None, height |-> None,
              aspect_ratio |-> None, gravity |-> None]
  /\ cpc = "idle"
  /\ caspect = None
  /\ cregion = Err("-")
  /\ cresult = None

\* the state of the header model when no parser is running
HeaderIdle ==
  /\ hfile = <<>>
  /\ hdata = <<>>
  /\ hparser = "-"
  /\ hpc = "idle"
  /\ hpos = 0
  /\ hacc = <<>>
  /\ hmax = -1
  /\ hresult = None

ExifIdle == xopts = <<>> /\ xbytes = <<>> /\ xpc = "idle" /\ xread = None

ThumbIdle ==
  /\ kin = <<>> /\ kasync = FALSE /\ kpc = "idle" /\ khanded = None
  /\ kresult = None

TensorIdle ==
  /\ npixels = <<>> /\ ndims = <<0, 0>> /\ nopts = <<>> /\ npc = "idle"
  /\ nout = <<>> /\ nwpos = <<>> /\ nwrote = <<>> /\ nresult = None

SyncIdle ==
  /\ sin = <<>> /\ sopts = <<>> /\ spc = "idle"
  /\ sdecoded = None /\ sresult = None

\* what the steps of one function leave alone, and where the other functions
\* stand while it runs
OnlyResize == UNCHANGED <<jpegVars, transformVars, decodeVars, cropVars, headerVars, exifVars, thumbVars, tensorVars, syncVars>>
OnlyJpeg == UNCHANGED <<resizeVars, transformVars, decodeVars, cropVars, headerVars, exifVars, thumbVars, tensorVars, syncVars>>
OnlyTransform == UNCHANGED <<resizeVars, jpegVars, decodeVars, cropVars, headerVars, exifVars, thumbVars, tensorVars, syncVars>>
OnlyDecode == UNCHANGED <<resizeVars, jpegVars, transformVars, cropVars, headerVars, exifVars, thumbVars, tensorVars, syncVars>>
OnlyCrop == UNCHANGED <<resizeVars, jpegVars, transformVars, decodeVars, headerVars, exifVars, thumbVars, tensorVars, syncVars>>
OnlyHeader == UNCHANGED <<resizeVars, jpegVars, transformVars, decodeVars, cropVars, exifVars, thumbVars, tensorVars, syncVars>>
OnlyExif == UNCHANGED <<resizeVars, jpegVars, transformVars, decodeVars, cropVars, headerVars, thumbVars, tensorVars, syncVars>>
OnlyThumb == UNCHANGED <<resizeVars, jpegVars, transformVars, decodeVars, cropVars, headerVars, exifVars, tensorVars, syncVars>>
OnlyTensor == UNCHANGED <<resizeVars, jpegVars, transformVars, decodeVars, cropVars, headerVars, exifVars, thumbVars, syncVars>>
OnlySync == UNCHANGED <<resizeVars, jpegVars, transformVars, decodeVars, cropVars, headerVars, exifVars, thumbVars, tensorVars>>
ResizeAlone == JpegIdle /\ TransformIdle /\ DecodeIdle /\ CropIdle /\ HeaderIdle /\ ExifIdle /\ ThumbIdle /\ TensorIdle /\ SyncIdle
JpegAlone == ResizeIdle /\ TransformIdle /\ DecodeIdle /\ CropIdle /\ HeaderIdle /\ ExifIdle /\ ThumbIdle /\ TensorIdle /\ SyncIdle
TransformAlone == ResizeIdle /\ JpegIdle /\ DecodeIdle /\ CropIdle /\ HeaderIdle /\ ExifIdle /\ ThumbIdle /\ TensorIdle /\ SyncIdle
DecodeAlone == ResizeIdle /\ JpegIdle /\ TransformIdle /\ CropIdle /\ HeaderIdle /\ ExifIdle /\ ThumbIdle /\ TensorIdle /\ SyncIdle
CropAlone == ResizeIdle /\ JpegIdle /\ TransformIdle /\ DecodeIdle /\ HeaderIdle /\ ExifIdle /\ ThumbIdle /\ TensorIdle /\ SyncIdle
HeaderAlone == ResizeIdle /\ JpegIdle /\ TransformIdle /\ DecodeIdle /\ CropIdle /\ ExifIdle /\ ThumbIdle /\ TensorIdle /\ SyncIdle
ExifAlone == ResizeIdle /\ JpegIdle /\ TransformIdle /\ DecodeIdle /\ CropIdle /\ HeaderIdle /\ ThumbIdle /\ TensorIdle /\ SyncIdle
ThumbAlone == ResizeIdle /\ JpegIdle /\ TransformIdle /\ DecodeIdle /\ CropIdle /\ HeaderIdle /\ ExifIdle /\ TensorIdle /\ SyncIdle
TensorAlone == ResizeIdle /\ JpegIdle /\ TransformIdle /\ DecodeIdle /\ CropIdle /\ HeaderIdle /\ ExifIdle /\ ThumbIdle /\ SyncIdle
SyncAlone == ResizeIdle /\ JpegIdle /\ TransformIdle /\ DecodeIdle /\ CropIdle /\ HeaderIdle /\ ExifIdle /\ ThumbIdle /\ TensorIdle

ResizeInit ==
  /\ rimg \in {Raster(w, h, c, <<>>) :
                 w \in 1..MaxDim, h \in 1..MaxDim, c \in {"Rgb8", "Rgba8"}}
  /\ ropts \in ResizeOptionsSet
  /\ rpc = "start"
  /\ rcur = rimg
  /\ rdst = <<0, 0>>
  /\ rpasses = <<>>
  /\ rresult = None
  /\ ResizeAlone

\* resize_image up to the choice of the path
resize_image_enter ==
  /\ rpc = "start"
  /\ LET dims == calculate_dimensions(rimg.w, rimg.h, ropts.width,
                                      ropts.height, ropts.fit) IN
     IF ~dims.ok THEN
       /\ rresult' = Some(Err(dims.err))
       /\ rpc' = "done"
       /\ UNCHANGED rdst
     ELSE
       LET dst_width == dims.val[1]
           dst_height == dims.val[2] IN
       /\ rdst' = dims.val
       /\ IF SkipResize(rimg.w, rimg.h, dst_width, dst_height) THEN
            /\ rresult' = Some(Ok(rimg))
            /\ rpc' = "done"
          ELSE
            /\ rresult' = None
            /\ rpc' = IF UseMultiStep(ropts,
                           ScaleFactor(rimg.w, rimg.h, dst_width, dst_height))
                      THEN "multi_step" ELSE "single_step"
  /\ UNCHANGED <<rimg, ropts, rcur, rpasses>>
  /\ OnlyResize

\* the single resampling pass of resize_image; the resampler may fail
resize_single_step ==
  /\ rpc = "single_step"
  /\ LET alg == get_resize_algorithm(ropts.filter,
                    ScaleFactor(rimg.w, rimg.h, rdst[1], rdst[2])) IN
     /\ rpasses' = Append(rpasses, PassRecord(rcur, rdst[1], rdst[2], alg))
     /\ \E fault \in BOOLEAN :
          IF fault THEN
            /\ rresult' = Some(Err("ProcessingError"))
            /\ UNCHANGED rcur
          ELSE
            /\ rcur' = ResamplePass(rcur, rdst[1], rdst[2], alg)
            /\ rresult' = Some(Ok(rcur'))
  /\ rpc' = "done"
  /\ UNCHANGED <<rimg, ropts, rdst>>
  /\ OnlyResize

\* one iteration of the halving loop of resize_multi_step
resize_multi_step_halve ==
  /\ rpc = "multi_step"
  /\ KeepHalving(rcur.w, rcur.h, rdst[1], rdst[2])
  /\ LET new_width == rcur.w \div 2
         new_height == rcur.h \div 2 IN
     /\ rpasses' = Append(rpasses, PassRecord(rcur, new_width, new_height, "Box"))
     /\ \E fault \in BOOLEAN :
          IF fault THEN
            /\ rresult' = Some(Err("ProcessingError"))
            /\ rpc' = "done"
            /\ UNCHANGED rcur
          ELSE
            /\ rcur' = ResamplePass(rcur, new_width, new_height, "Box")
            /\ UNCHANGED <<rresult, rpc>>
  /\ UNCHANGED <<rimg, ropts, rdst>>
  /\ OnlyResize

\* the final pass of resize_multi_step
resize_multi_step_final ==
  /\ rpc = "multi_step"
  /\ ~KeepHalving(rcur.w, rcur.h, rdst[1], rdst[2])
  /\ rpasses' = Append(rpasses, PassRecord(rcur, rdst[1], rdst[2], "Bilinear"))
  /\ \E fault \in BOOLEAN :
       IF fault THEN
         /\ rresult' = Some(Err("ProcessingError"))
         /\ UNCHANGED rcur
       ELSE
         /\ rcur' = ResamplePass(rcur, rdst[1], rdst[2], "Bilinear")
         /\ rresult' = Some(Ok(rcur'))
  /\ rpc' = "done"
  /\ UNCHANGED <<rimg, ropts, rdst>>
  /\ OnlyResize

ResizeNext ==
  \/ resize_image_enter
  \/ resize_single_step
  \/ resize_multi_step_halve
  \/ resize_multi_step_final

SpecResize == ResizeInit /\ [][ResizeNext]_vars

(***************************************************************************)
(* Properties of the Resize Engine, checked under SpecResize.              *)
(***************************************************************************)

\* resize_image has computed its target dimensions
DimsComputed ==
  rpc # "start" /\ (IsSome(ropts.width) \/ IsSome(ropts.height))

\* every target axis the caller gave is at least 1
TargetsPositive ==
  /\ IsSome(ropts.width) => Unwrap(ropts.width) >= 1
  /\ IsSome(ropts.height) => Unwrap(ropts.height) >= 1

\* C4: for every fit mode, every source of at least 1x1 and every target
\* whose given width / height are at least 1, the dimensions computed by
\* calculate_dimensions have width >= 1 and height >= 1.
C4_ComputedDimsAtLeastOne ==
  (DimsComputed /\ TargetsPositive /\ rimg.w >= 1 /\ rimg.h >= 1)
    => (rdst[1] >= 1 /\ rdst[2] >= 1)

\* C5: a resize request whose target width or height is 0 is rejected with
\* InvalidDimensions; it is never coerced to a non-zero size and never
\* produces an output image.
C5_ZeroTargetRejected ==
  (rpc = "done" /\ (ropts.width = Some(0) \/ ropts.height = Some(0)))
    => rresult = Some(Err("InvalidDimensions"))

\* C6: with both targets given, Inside keeps a source that already fits and
\* otherwise yields a result no larger than the source in either axis;
\* Outside keeps a source that already exceeds the target in both axes and
\* otherwise yields a result no smaller than the source in either axis.
C6_InsideOutside ==
  (DimsComputed /\ IsSome(ropts.width) /\ IsSome(ropts.height)) =>
    LET tw == Unwrap(ropts.width)
        th == Unwrap(ropts.height) IN
    /\ ropts.fit = Some("Inside") =>
         IF rimg.w <= tw /\ rimg.h <= th
         THEN rdst = <<rimg.w, rimg.h>>
         ELSE rdst[1] <= rimg.w /\ rdst[2] <= rimg.h
    /\ ropts.fit = Some("Outside") =>
         IF rimg.w >= tw /\ rimg.h >= th
         THEN rdst = <<rimg.w, rimg.h>>
         ELSE rdst[1] >= rimg.w /\ rdst[2] >= rimg.h

\* C6 witness: Inside has scaled down a source that does not fit
C6_Witness ==
  /\ DimsComputed /\ IsSome(ropts.width) /\ IsSome(ropts.height)
  /\ ropts.fit = Some("Inside")
  /\ rimg.w > Unwrap(ropts.width)
  /\ rimg.h <= Unwrap(ropts.height)
  /\ rdst[1] < rimg.w /\ rdst[2] < rimg.h /\ rdst[2] >= 1

\* C7: whenever the computed target equals the input raster's dimensions,
\* resize_image returns the input raster unchanged and runs no resampling
\* pass, whatever the fit mode and the filter override.
C7_SkipReturnsInput ==
  (DimsComputed /\ rdst = <<rimg.w, rimg.h>>) =>
    /\ rpc = "done"
    /\ rresult = Some(Ok(rimg))
    /\ rpasses = <<>>

\* C7 witness: a non-square RGBA raster, a filter override and an explicit
\* fit mode, the computed target equal to the source
C7_Witness ==
  /\ DimsComputed /\ rdst = <<rimg.w, rimg.h>>
  /\ rimg.w # rimg.h /\ rimg.color = "Rgba8"
  /\ IsSome(ropts.filter) /\ ropts.fit = Some("Contain")
  /\ rpc = "done" /\ rresult = Some(Ok(rimg))

\* the dimensions after each halving, as the specification words it: halve
\* both while both exceed twice the final target
RECURSIVE HalvingChain(_, _, _, _)
HalvingChain(cw, ch, dw, dh) ==
  IF cw > 2 * dw /\ ch > 2 * dh
  THEN <<<<cw \div 2, ch \div 2>>>> \o HalvingChain(cw \div 2, ch \div 2, dw, dh)
  ELSE <<>>

\* scale_factor < 0.75 and no filter override
MultiStepCase ==
  /\ IsNone(ropts.filter)
  /\ (4 * rdst[1] < 3 * rimg.w \/ 4 * rdst[2] < 3 * rimg.h)

\* the passes of the multi-step path: Box to each halved size, then Bilinear
\* to the target
MultiStepPasses ==
  LET chain == HalvingChain(rimg.w, rimg.h, rdst[1], rdst[2]) IN
  [i \in 1..Len(chain) |-> <<"Box", chain[i][1], chain[i][2]>>]
    \o <<<<"Bilinear", rdst[1], rdst[2]>>>>

\* the passes run so far: the algorithm class and the size resampled to
PassesRun(multi) ==
  [i \in 1..Len(rpasses) |->
     <<IF multi THEN rpasses[i].alg ELSE "single",
       rpasses[i].dw, rpasses[i].dh>>]

IsPrefix(s, t) == Len(s) <= Len(t) /\ SubSeq(t, 1, Len(s)) = s

ReturnedRaster == rpc = "done" /\ IsSome(rresult) /\ Unwrap(rresult).ok

AdaptiveTable(sw, sh, dw, dh) ==
  IF 4 * dw < sw \/ 4 * dh < sh THEN "Box"
  ELSE IF 2 * dw < sw \/ 2 * dh < sh THEN "Bilinear"
  ELSE IF 4 * dw < 3 * sw \/ 4 * dh < 3 * sh THEN "CatmullRom"
  ELSE "Lanczos3"

JpegInit ==
  /\ jsrc \in (1..MaxJpegDim) \X (1..MaxJpegDim)
  /\ jtarget \in [width : OptionOf(0..MaxJpegDim),
                  height : OptionOf(0..MaxJpegDim)]
  /\ jpc = "start"
  /\ jscale = <<1, 1>>
  /\ jresult = None
  /\ JpegAlone

\* decode_image_with_target with a target: decode_jpeg_with_shrink; the codec
\* may reject the data
jpeg_decode_with_shrink ==
  /\ jpc = "start"
  /\ IsSome(jtarget.width) \/ IsSome(jtarget.height)
  /\ jscale' = calculate_jpeg_scale_factor(jsrc[1], jsrc[2],
                                           jtarget.width, jtarget.height)
  /\ \E fault \in BOOLEAN :
       jresult' = IF fault THEN Some(Err("DecodeError"))
                  ELSE Some(Ok(decode_image_with_target(
                         [format |-> "jpeg", w |-> jsrc[1], h |-> jsrc[2],
                          color |-> "Rgb8"], jtarget.width, jtarget.height)))
  /\ jpc' = "done"
  /\ UNCHANGED <<jsrc, jtarget>>
  /\ OnlyJpeg

\* decode_image_with_target without a target: decode_jpeg_fast
jpeg_decode_fast ==
  /\ jpc = "start"
  /\ IsNone(jtarget.width) /\ IsNone(jtarget.height)
  /\ \E fault \in BOOLEAN :
       jresult' = IF fault THEN Some(Err("DecodeError"))
                  ELSE Some(Ok(decode_image_with_target(
                         [format |-> "jpeg", w |-> jsrc[1], h |-> jsrc[2],
                          color |-> "Rgb8"], jtarget.width, jtarget.height)))
  /\ jpc' = "done"
  /\ UNCHANGED <<jsrc, jtarget, jscale>>
  /\ OnlyJpeg

JpegNext ==
  \/ jpeg_decode_with_shrink
  \/ jpeg_decode_fast

SpecJpeg == JpegInit /\ [][JpegNext]_vars

(***************************************************************************)
(* Properties of JPEG shrink-on-load, checked under SpecJpeg.              *)
(***************************************************************************)

\* the decode scale the specification's policy gives for shrink = n / d
PolicyScale(n, d) ==
  IF n >= 8 * d THEN <<1, 8>>
  ELSE IF n >= 4 * d THEN <<1, 4>>
  ELSE IF n >= 2 * d THEN <<1, 2>>
  ELSE <<1, 1>>

StrOneOne == <<"1", ":", "1">>
NoCrop == [x |-> None, y |-> None, width |-> None, height |-> None,
           aspect_ratio |-> None, gravity |-> None]

\* the CropOptions of the transform model: by dimensions, by aspect ratio,
\* and by coordinates without a width (which crop_image rejects)
TransformCrops ==
  { [NoCrop EXCEPT !.width = Some(MaxSrc \div 2)],
    [NoCrop EXCEPT !.aspect_ratio = Some(StrOneOne), !.gravity = Some("East")],
    [NoCrop EXCEPT !.x = Some(1), !.height = Some(2)] }

\* the ResizeOptions of the transform model: by width, by both with a filter,
\* and with neither (which resize_image rejects)
TransformResizes ==
  { [width |-> Some(2), height |-> None, filter |-> None, fit |-> None],
    [width |-> Some(3), height |-> Some(MaxSrc), filter |-> Some("Nearest"),
     fit |-> Some("Fill")],
    [width |-> None, height |-> None, filter |-> None, fit |-> None] }

TransformOptionsSet ==
  [crop : OptionOf(TransformCrops),
   resize : OptionOf(TransformResizes),
   output : OptionOf({"Jpeg", "Ico"}),
   rotate : OptionOf({90, 45}),
   flip_h : OptionOf({TRUE}),
   flip_v : {Some(FALSE), Some(TRUE)},
   grayscale : OptionOf({TRUE}),
   blur : {Some(0), Some(2)},
   sharpen : OptionOf({1}),
   brightness : {Some(0), Some(10)},
   contrast : OptionOf({-5})]

TransformInputs ==
  [format : {"jpeg", "png"}, w : {MaxSrc}, h : {MaxSrc - 2},
   color : {"Rgba8"}, valid : BOOLEAN]

TransformInit ==
  /\ topts \in TransformOptionsSet
  /\ tin \in TransformInputs
  /\ timg = None
  /\ tpc = "decode"
  /\ tlog = <<>>
  /\ tresult = None
  /\ decodeTarget = <<None, None>>
  /\ TransformAlone

Executed(stage, result) == [stage |-> stage, ok |-> result.ok, err |-> result.err]

\* a fallible block: the call, and the `?` on its result
FallibleStage(stage, result) ==
  /\ tlog' = Append(tlog, Executed(stage, result))
  /\ timg' = IF result.ok THEN Some(result.val) ELSE timg
  /\ tresult' = IF result.ok THEN tresult ELSE Some(Err(result.err))
  /\ tpc' = AfterStage(stage, result)

\* an infallible block that runs only under its condition
OptionalStage(stage, applies, img) ==
  /\ tlog' = IF applies THEN Append(tlog, Executed(stage, Ok(img))) ELSE tlog
  /\ timg' = IF applies THEN Some(img) ELSE timg
  /\ tpc' = NextStage(stage)
  /\ UNCHANGED tresult

transform_decode ==
  /\ tpc = "decode"
  /\ LET target == DecodeTarget(topts) IN
     /\ decodeTarget' = target
     /\ FallibleStage("decode",
          IF tin.valid
          THEN Ok(decode_image_with_target(tin, target[1], target[2]))
          ELSE Err("DecodeError"))
  /\ UNCHANGED <<topts, tin>>
  /\ OnlyTransform

transform_crop ==
  /\ tpc = "crop"
  /\ IF IsSome(topts.crop)
     THEN FallibleStage("crop", crop_image(Unwrap(timg), Unwrap(topts.crop)))
     ELSE /\ tpc' = NextStage("crop")
          /\ UNCHANGED <<tlog, timg, tresult>>
  /\ UNCHANGED <<topts, tin, decodeTarget>>
  /\ OnlyTransform

transform_resize ==
  /\ tpc = "resize"
  /\ IF IsSome(topts.resize)
     THEN LET r == resize_image(Unwrap(timg), Unwrap(topts.resize)) IN
          \E fault \in BOOLEAN :
            \* the resampler can only fail where a pass is run
            FallibleStage("resize",
              IF fault /\ r.ok /\ r.val # Unwrap(timg)
              THEN Err("ProcessingError") ELSE r)
     ELSE /\ tpc' = NextStage("resize")
          /\ UNCHANGED <<tlog, timg, tresult>>
  /\ UNCHANGED <<topts, tin, decodeTarget>>
  /\ OnlyTransform

transform_rotate ==
  /\ tpc = "rotate"
  /\ LET degrees == UnwrapOr(topts.rotate, 0) IN
     OptionalStage("rotate",
       IsSome(topts.rotate) /\ degrees \in {90, -270, 180, -180, 270, -90},
       Rotate(Unwrap(timg), degrees))
  /\ UNCHANGED <<topts, tin, decodeTarget>>
  /\ OnlyTransform

transform_flip_h ==
  /\ tpc = "flip_h"
  /\ OptionalStage("flip_h", UnwrapOr(topts.flip_h, FALSE),
                   PixelOp(Unwrap(timg), "flip_h"))
  /\ UNCHANGED <<topts, tin, decodeTarget>>
  /\ OnlyTransform

transform_flip_v ==
  /\ tpc = "flip_v"
  /\ OptionalStage("flip_v", UnwrapOr(topts.flip_v, FALSE),
                   PixelOp(Unwrap(timg), "flip_v"))
  /\ UNCHANGED <<topts, tin, decodeTarget>>
  /\ OnlyTransform

transform_grayscale ==
  /\ tpc = "grayscale"
  /\ OptionalStage("grayscale", UnwrapOr(topts.grayscale, FALSE),
                   Grayscale(Unwrap(timg)))
  /\ UNCHANGED <<topts, tin, decodeTarget>>
  /\ OnlyTransform

transform_blur ==
  /\ tpc = "blur"
  /\ OptionalStage("blur", IsSome(topts.blur) /\ UnwrapOr(topts.blur, 0) > 0,
                   PixelOp(Unwrap(timg), "blur"))
  /\ UNCHANGED <<topts, tin, decodeTarget>>
  /\ OnlyTransform

transform_sharpen ==
  /\ tpc = "sharpen"
  /\ OptionalStage("sharpen",
                   IsSome(topts.sharpen) /\ UnwrapOr(topts.sharpen, 0) > 0,
                   PixelOp(Unwrap(timg), "sharpen"))
  /\ UNCHANGED <<topts, tin, decodeTarget>>
  /\ OnlyTransform

transform_brightness ==
  /\ tpc = "brightness"
  /\ OptionalStage("brightness",
                   IsSome(topts.brightness) /\ UnwrapOr(topts.brightness, 0) # 0,
                   PixelOp(Unwrap(timg), "brightness"))
  /\ UNCHANGED <<topts, tin, decodeTarget>>
  /\ OnlyTransform

transform_contrast ==
  /\ tpc = "contrast"
  /\ OptionalStage("contrast",
                   IsSome(topts.contrast) /\ UnwrapOr(topts.contrast, 0) # 0,
                   PixelOp(Unwrap(timg), "contrast"))
  /\ UNCHANGED <<topts, tin, decodeTarget>>
  /\ OnlyTransform

\* the encode block and the return of the output bytes; the encoder may fail
transform_encode ==
  /\ tpc = "encode"
  /\ \E fault \in BOOLEAN :
       LET r == IF fault THEN Err("EncodeError")
                ELSE IF IsSome(topts.output)
                THEN encode_to_format(Unwrap(timg), Unwrap(topts.output))
                ELSE encode_png(Unwrap(timg)) IN
       /\ tlog' = Append(tlog, Executed("encode", r))
       /\ tresult' = Some(r)
       /\ tpc' = AfterStage("encode", r)
  /\ UNCHANGED <<topts, tin, timg, decodeTarget>>
  /\ OnlyTransform

TransformNext ==
  \/ transform_decode
  \/ transform_crop
  \/ transform_resize
  \/ transform_rotate
  \/ transform_flip_h
  \/ transform_flip_v
  \/ transform_grayscale
  \/ transform_blur
  \/ transform_sharpen
  \/ transform_brightness
  \/ transform_contrast
  \/ transform_encode

SpecTransform == TransformInit /\ [][TransformNext]_vars

(***************************************************************************)
(* Properties of the Transform Pipeline, checked under SpecTransform.      *)
(***************************************************************************)

\* the stage order of the specification
StageOrder ==
  <<"decode", "crop", "resize", "rotate", "flip_h", "flip_v", "grayscale",
    "blur", "sharpen", "brightness", "contrast", "encode">>

\* whether a TransformSpec enables a stage
StageEnabled(stage) ==
  CASE stage \in {"decode", "encode"} -> TRUE
    [] stage = "crop" -> topts.crop # None
    [] stage = "resize" -> topts.resize # None
    [] stage = "rotate" ->
         \E d \in {90, 180, 270, -90, -180, -270} : topts.rotate = Some(d)
    [] stage = "flip_h" -> topts.flip_h = Some(TRUE)
    [] stage = "flip_v" -> topts.flip_v = Some(TRUE)
    [] stage = "grayscale" -> topts.grayscale = Some(TRUE)
    [] stage = "blur" -> topts.blur # None /\ topts.blur # Some(0)
    [] stage = "sharpen" -> topts.sharpen # None /\ topts.sharpen # Some(0)
    [] stage = "brightness" ->
         topts.brightness # None /\ topts.brightness # Some(0)
    [] stage = "contrast" -> topts.contrast # None /\ topts.contrast # Some(0)

EnabledStages == SelectSeq(StageOrder, StageEnabled)

StagesRun == [i \in 1..Len(tlog) |-> tlog[i].stage]

TransformReturnedBytes == IsSome(tresult) /\ Unwrap(tresult).ok

\* C1: transform runs its enabled stages in the order decode, crop, resize,
\* rotate, flip horizontal, flip vertical, grayscale, blur, sharpen,
\* brightness, contrast, encode, each at most once, decode first and encode
\* last, whichever fields are set.
C1_StageOrder ==
  /\ IsPrefix(StagesRun, EnabledStages)
  /\ TransformReturnedBytes => StagesRun = EnabledStages
  /\ tpc # "decode" => (tlog # <<>> /\ tlog[1].stage = "decode")

\* C1 witness: a transform with every stage enabled has returned its bytes
C1_Witness ==
  /\ TransformReturnedBytes
  /\ StagesRun = StageOrder

\* C2: if a stage fails no later stage is executed and the call returns that
\* stage's error; the result is either the complete encoded output or an
\* error.
C2_AbortAtFirstFailure ==
  /\ \A i \in 1..Len(tlog) :
       ~tlog[i].ok =>
         /\ i = Len(tlog)
         /\ tpc = "done"
         /\ tresult = Some(Err(tlog[i].err))
  /\ IsSome(tresult) =>
       /\ tpc = "done"
       /\ IF Unwrap(tresult).ok
          THEN /\ \A i \in 1..Len(tlog) : tlog[i].ok
               /\ tlog[Len(tlog)].stage = "encode"
               /\ Unwrap(tresult).val.img = Unwrap(timg)
          ELSE /\ ~tlog[Len(tlog)].ok
               /\ Unwrap(tresult).err = tlog[Len(tlog)].err
  /\ tpc = "done" => IsSome(tresult)

\* C2 witness: the crop stage failed under a transform that also asks for a
\* resize and a rotation, and the call returned the crop's error
C2_Witness ==
  /\ tpc = "done"
  /\ StagesRun = <<"decode", "crop">>
  /\ tlog[1].ok /\ ~tlog[2].ok
  /\ tresult = Some(Err("InvalidDimensions"))
  /\ IsSome(topts.resize) /\ topts.rotate = Some(90)

\* C3: the decoder is given no target dimensions whenever a crop is
\* requested, even if a resize is requested too; with no crop it is given
\* the resize spec's width and height, and no target when there is no
\* resize.
C3_DecodeTarget ==
  tpc # "decode" =>
    /\ IsSome(topts.crop) => decodeTarget = <<None, None>>
    /\ (IsNone(topts.crop) /\ IsSome(topts.resize)) =>
         decodeTarget = <<Unwrap(topts.resize).width,
                          Unwrap(topts.resize).height>>
    /\ (IsNone(topts.crop) /\ IsNone(topts.resize)) =>
         decodeTarget = <<None, None>>

\* C3 witness: a crop and a resize by width are both requested, and the
\* JPEG was decoded at full resolution with no target
C3_Witness ==
  /\ tpc = "crop"
  /\ IsSome(topts.crop) /\ IsSome(topts.resize)
  /\ IsSome(Unwrap(topts.resize).width)
  /\ decodeTarget = <<None, None>>
  /\ tin.format = "jpeg"
  /\ Unwrap(timg).w = tin.w /\ Unwrap(timg).h = tin.h

(***************************************************************************)
(* decode/mod.rs, decode/generic.rs, decode/heic.rs: the decoder           *)
(* dispatcher with the pixel ceiling of each decoder.                      *)
(***************************************************************************)

\* the pixel ceiling of decode_with_image_crate_safe and
\* decode_heic_with_target
MAX_PIXELS_DEFAULT == 100000000

\* metadata::is_heic: an ftyp box with a HEIC / AVIF brand
is_heic(data) == data.format = "heic"

\* metadata::detect_format: image::guess_format on the magic bytes
detect_format(data) ==
  IF is_heic(data) THEN Ok("avif")
  ELSE IF data.format = "unknown" THEN Err("DecodeError")
  ELSE Ok(data.format)

\* a pixel buffer allocated / a pixel decode started, for width x height
Allocated(width, height) == [ev |-> "alloc", w |-> width, h |-> height]
Decoding(width, height) == [ev |-> "decode", w |-> width, h |-> height]

\* the dimensions decode_heic_with_target leaves the decoded image at:
\* scaled to the target when the target is below half the source
HeicScaled(src_width, src_height, target_width, target_height) ==
  IF IsSome(target_width) /\ IsSome(target_height) THEN
    IF /\ Unwrap(target_width) < src_width \div 2
       /\ Unwrap(target_height) < src_height \div 2
    THEN <<Unwrap(target_width), Unwrap(target_height)>>
    ELSE <<src_width, src_height>>
  ELSE IF IsSome(target_width) THEN
    IF Unwrap(target_width) < src_width \div 2
    THEN <<Unwrap(target_width),
           TruncScale(src_height, Unwrap(target_width), src_width)>>
    ELSE <<src_width, src_height>>
  ELSE IF IsSome(target_height) THEN
    IF Unwrap(target_height) < src_height \div 2
    THEN <<TruncScale(src_width, Unwrap(target_height), src_height),
           Unwrap(target_height)>>
    ELSE <<src_width, src_height>>
  ELSE <<src_width, src_height>>

\* the header dimensions of the inputs: small ones, and two around the
\* square root of the ceiling
MaxDecDim == 5

HeaderDims == (1..MaxDecDim) \cup {10000, 10001}

DecodeInputs ==
  [format : {"jpeg", "png", "webp", "heic", "unknown"},
   w : HeaderDims, h : HeaderDims, color : {"Rgba8"}]

DecodeInit ==
  /\ din \in DecodeInputs
  /\ dtarget \in [width : OptionOf(1..MaxDecDim),
                  height : OptionOf(1..MaxDecDim)]
  /\ dheic \in BOOLEAN
  /\ dpc = "start"
  /\ dlog = <<>>
  /\ dresult = None
  /\ DecodeAlone

\* decode_image_with_target: HEIC first, then the format's decoder
decode_dispatch ==
  /\ dpc = "start"
  /\ IF is_heic(din) THEN dpc' = "heic" /\ UNCHANGED dresult
     ELSE LET format == detect_format(din) IN
          IF ~format.ok
          THEN dpc' = "done" /\ dresult' = Some(Err(format.err))
          ELSE /\ dpc' = IF format.val = "jpeg"
                         THEN IF IsSome(dtarget.width) \/ IsSome(dtarget.height)
                              THEN "jpeg_shrink" ELSE "jpeg_fast"
                         ELSE "generic"
               /\ UNCHANGED dresult
  /\ UNCHANGED <<din, dtarget, dheic, dlog>>
  /\ OnlyDecode

\* decode_heic_with_target; without the heic feature, the placeholder
decode_heic ==
  /\ dpc = "heic"
  /\ dpc' = "done"
  /\ IF ~dheic
     THEN dresult' = Some(Err("UnsupportedFormat")) /\ UNCHANGED dlog
     ELSE \E fault \in {"none", "context", "decode"} :
       IF fault = "context"
       THEN dresult' = Some(Err("DecodeError")) /\ UNCHANGED dlog
       ELSE IF din.w * din.h > MAX_PIXELS_DEFAULT
       THEN dresult' = Some(Err("DecodeError")) /\ UNCHANGED dlog
       ELSE /\ dlog' = <<Decoding(din.w, din.h)>>
            /\ dresult' =
                 IF fault = "decode" THEN Some(Err("DecodeError"))
                 ELSE LET d == HeicScaled(din.w, din.h, dtarget.width,
                                          dtarget.height) IN
                      Some(Ok(Raster(d[1], d[2], din.color, <<>>)))
  /\ UNCHANGED <<din, dtarget, dheic>>
  /\ OnlyDecode

\* decode_jpeg_with_shrink: the header's dimensions, the scaling factor, the
\* output buffer at the scaled size, the decompression
decode_jpeg_shrink ==
  /\ dpc = "jpeg_shrink"
  /\ dpc' = "done"
  /\ \E fault \in {"none", "header", "decompress"} :
       IF fault = "header"
       THEN dresult' = Some(Err("DecodeError")) /\ UNCHANGED dlog
       ELSE LET out == decode_image_with_target(din, dtarget.width,
                                                dtarget.height) IN
            /\ dlog' = <<Allocated(out.w, out.h), Decoding(din.w, din.h)>>
            /\ dresult' = IF fault = "decompress"
                          THEN Some(Err("DecodeError")) ELSE Some(Ok(out))
  /\ UNCHANGED <<din, dtarget, dheic>>
  /\ OnlyDecode

\* decode_jpeg_fast: turbojpeg::decompress allocates and decodes at the
\* header's size
decode_jpeg_full ==
  /\ dpc = "jpeg_fast"
  /\ dpc' = "done"
  /\ \E fault \in {"none", "header", "decompress"} :
       IF fault = "header"
       THEN dresult' = Some(Err("DecodeError")) /\ UNCHANGED dlog
       ELSE /\ dlog' = <<Allocated(din.w, din.h), Decoding(din.w, din.h)>>
            /\ dresult' = IF fault = "decompress"
                          THEN Some(Err("DecodeError"))
                          ELSE Some(Ok(decode_image_with_target(
                                 din, dtarget.width, dtarget.height)))
  /\ UNCHANGED <<din, dtarget, dheic>>
  /\ OnlyDecode

\* decode_with_image_crate_safe: the dimensions are read and checked against
\* the ceiling, then the image is decoded at the header's size whatever the
\* target
decode_generic ==
  /\ dpc = "generic"
  /\ dpc' = "done"
  /\ \E fault \in {"none", "header", "decode"} :
       IF fault = "header"
       THEN dresult' = Some(Err("DecodeError")) /\ UNCHANGED dlog
       ELSE IF din.w * din.h > MAX_PIXELS_DEFAULT
       THEN dresult' = Some(Err("DecodeError")) /\ UNCHANGED dlog
       ELSE /\ dlog' = <<Allocated(din.w, din.h), Decoding(din.w, din.h)>>
            /\ dresult' = IF fault = "decode"
                          THEN Some(Err("DecodeError"))
                          ELSE Some(Ok(decode_image_with_target(
                                 din, dtarget.width, dtarget.height)))
  /\ UNCHANGED <<din, dtarget, dheic>>
  /\ OnlyDecode

DecodeNext ==
  \/ decode_dispatch
  \/ decode_heic
  \/ decode_jpeg_shrink
  \/ decode_jpeg_full
  \/ decode_generic

SpecDecode == DecodeInit /\ [][DecodeNext]_vars

(***************************************************************************)
(* Properties of the decoder dispatcher, checked under SpecDecode.         *)
(***************************************************************************)

DecodedOk == dpc = "done" /\ IsSome(dresult) /\ Unwrap(dresult).ok

\* the target is below two-thirds of the source in a given axis
BelowTwoThirds ==
  \/ IsSome(dtarget.width) /\ 3 * Unwrap(dtarget.width) < 2 * din.w
  \/ IsSome(dtarget.height) /\ 3 * Unwrap(dtarget.height) < 2 * din.h

\* C11: a WebP input decoded through decode_image_with_target with a target
\* below two-thirds of the source in either axis comes out at exactly the
\* target resolution (in every axis the target gives); with a larger target,
\* or none, it comes out at source resolution.
C11_WebpScaleOnDecode ==
  (DecodedOk /\ din.format = "webp") =>
    LET out == Unwrap(dresult).val IN
    IF BelowTwoThirds
    THEN /\ IsSome(dtarget.width) => out.w = Unwrap(dtarget.width)
         /\ IsSome(dtarget.height) => out.h = Unwrap(dtarget.height)
    ELSE out.w = din.w /\ out.h = din.h

\* C12: an input of any format whose header claims more than 100,000,000
\* pixels is rejected with DecodeError, with or without a target, before any
\* pixel buffer is allocated or any pixel decode is started.
C12_PixelCeiling ==
  (dpc = "done" /\ din.format # "unknown"
     /\ din.w * din.h > MAX_PIXELS_DEFAULT) =>
    /\ dresult = Some(Err("DecodeError"))
    /\ dlog = <<>>

(***************************************************************************)
(* crop.rs: crop_image on its own.                                         *)
(***************************************************************************)

MaxCropDim == 3
MaxStrLen == 3

\* the aspect-ratio strings: every string of the characters below up to
\* MaxStrLen, and some longer ones
AspectStrings ==
  UNION {[1..n -> {"0", "1", "2", ":", " ", "a"}] : n \in 0..MaxStrLen}
    \cup {<<"1", "6", ":", "9">>, <<"1", ":", "1", ":", "1">>,
          <<" ", "1", " ", ":", " ", "2", " ">>, <<"+", "2", ":", "+", "1">>,
          <<"-", "1", ":", "1">>, <<"1", ".", "5", ":", "1">>}

\* the CropOptions: by coordinates or dimensions, by dimensions under every
\* gravity, by every aspect-ratio string, by an aspect ratio under every
\* gravity
CropOptionsSet ==
  [x : OptionOf(0..MaxCropDim), y : OptionOf(0..MaxCropDim),
   width : OptionOf(0..(MaxCropDim + 1)), height : OptionOf(0..(MaxCropDim + 1)),
   aspect_ratio : {None}, gravity : {None, Some("SouthEast")}]
  \cup
  [x : {None}, y : {None},
   width : OptionOf(0..(MaxCropDim + 1)), height : OptionOf(0..(MaxCropDim + 1)),
   aspect_ratio : {None}, gravity : OptionOf(CropGravity)]
  \cup
  [x : {None, Some(1)}, y : {None}, width : {None}, height : {None},
   aspect_ratio : {Some(str) : str \in AspectStrings},
   gravity : {None, Some("SouthEast")}]
  \cup
  [x : {None}, y : {None}, width : {None}, height : {None},
   aspect_ratio : {Some(<<"1", ":", "1">>), Some(<<"2", ":", "1">>),
                   Some(<<"1", ":", "3">>)},
   gravity : OptionOf(CropGravity)]

CropInit ==
  /\ cimg \in {Raster(w, h, "Rgb8", <<>>) :
                 w \in 1..MaxCropDim, h \in 1..MaxCropDim}
  /\ copts \in CropOptionsSet
  /\ cpc = "start"
  /\ caspect = None
  /\ cregion = Err("-")
  /\ cresult = None
  /\ CropAlone

\* crop_image: the crop region by mode, or the error of a mode that cannot be
\* resolved
crop_determine_region ==
  /\ cpc = "start"
  /\ caspect' = IF IsSome(copts.aspect_ratio)
                THEN parse_aspect_ratio(Unwrap(copts.aspect_ratio))
                ELSE None
  /\ cregion' = CropRegion(cimg.w, cimg.h, copts)
  /\ IF cregion'.ok
     THEN cpc' = "bounds" /\ UNCHANGED cresult
     ELSE cpc' = "done" /\ cresult' = Some(crop_image(cimg, copts))
  /\ UNCHANGED <<cimg, copts>>
  /\ OnlyCrop

\* crop_image: the bounds validation, the clamp and crop_imm
crop_validate_bounds ==
  /\ cpc = "bounds"
  /\ cresult' = Some(crop_image(cimg, copts))
  /\ cpc' = "done"
  /\ UNCHANGED <<cimg, copts, caspect, cregion>>
  /\ OnlyCrop

CropNext ==
  \/ crop_determine_region
  \/ crop_validate_bounds

SpecCrop == CropInit /\ [][CropNext]_vars

(***************************************************************************)
(* Properties of crop_image, checked under SpecCrop.                       *)
(***************************************************************************)

\* the region was resolved through calculate_gravity_crop
ByGravity ==
  /\ cpc \in {"bounds", "done"} /\ cregion.ok
  /\ IsSome(copts.aspect_ratio) \/ (IsNone(copts.x) /\ IsNone(copts.y))

\* the documented offset of a gravity for the free space (dx, dy)
DocumentedOffset(gravity, dx, dy) ==
  CASE gravity = "Center" -> <<dx \div 2, dy \div 2>>
    [] gravity = "North" -> <<dx \div 2, 0>>
    [] gravity = "South" -> <<dx \div 2, dy>>
    [] gravity = "East" -> <<dx, dy \div 2>>
    [] gravity = "West" -> <<0, dy \div 2>>
    [] gravity = "NorthWest" -> <<0, 0>>
    [] gravity = "NorthEast" -> <<dx, 0>>
    [] gravity = "SouthWest" -> <<0, dy>>
    [] gravity = "SouthEast" -> <<dx, dy>>

\* C13: for each of the nine gravities and every crop (cw, ch) no larger
\* than the source, the offset of calculate_gravity_crop lies in
\* 0..sw-cw x 0..sh-ch and is the documented one for the free space
\* (sw-cw, sh-ch); in an axis where the crop is larger than the source the
\* free space saturates to 0.
C13_GravityOffset ==
  ByGravity =>
    LET x == cregion.val[1]
        y == cregion.val[2]
        cw == cregion.val[3]
        ch == cregion.val[4]
        dx == IF cw <= cimg.w THEN cimg.w - cw ELSE 0
        dy == IF ch <= cimg.h THEN cimg.h - ch ELSE 0 IN
    /\ <<x, y>> = DocumentedOffset(UnwrapOr(copts.gravity, "Center"), dx, dy)
    /\ (cw <= cimg.w /\ ch <= cimg.h) =>
         (0 <= x /\ x <= cimg.w - cw /\ 0 <= y /\ y <= cimg.h - ch)

\* C13 witness: a dimension crop wider than the source and shorter than it,
\* anchored South-East
C13_Witness ==
  /\ ByGravity /\ IsNone(copts.aspect_ratio)
  /\ copts.gravity = Some("SouthEast")
  /\ cregion.val[3] > cimg.w /\ cregion.val[4] < cimg.h
  /\ cregion.val[1] = 0 /\ cregion.val[2] = cimg.h - cregion.val[4]
  /\ cregion.val[2] > 0

\* the aspect ratio was parsed and the region resolved from it
ByAspect == cpc \in {"bounds", "done"} /\ IsSome(caspect)

\* C14 as stated: the crop is (round(sh*W/H), sh) when sw/sh > W/H and
\* (sw, round(sw*H/W)) otherwise, lies in 1..sw x 1..sh with an axis equal to
\* the source's, and never fails bounds validation.
C14_AsStated ==
  ByAspect =>
    LET sw == cimg.w
        sh == cimg.h
        W == Unwrap(caspect)[1]
        H == Unwrap(caspect)[2]
        cw == cregion.val[3]
        ch == cregion.val[4] IN
    /\ cregion.ok
    /\ IF sw * H > W * sh
       THEN <<cw, ch>> = <<RoundDiv(sh * W, H), sh>>
       ELSE <<cw, ch>> = <<sw, RoundDiv(sw * H, W)>>
    /\ 1 <= cw /\ cw <= sw /\ 1 <= ch /\ ch <= sh
    /\ cw = sw \/ ch = sh
    /\ cpc = "done" => Unwrap(cresult).ok

\* C14: the crop is (max(1, round(sh*W/H)), sh) when sw/sh > W/H and
\* (sw, max(1, round(sw*H/W))) otherwise; it lies in 1..sw x 1..sh with an
\* axis equal to the source's, a square crop of a 2:1 or 1:2 source is the
\* short side squared, and the crop never fails bounds validation under any
\* gravity: the result is the cropped raster of that size.
C14_AspectCrop ==
  ByAspect =>
    LET sw == cimg.w
        sh == cimg.h
        W == Unwrap(caspect)[1]
        H == Unwrap(caspect)[2]
        cw == cregion.val[3]
        ch == cregion.val[4] IN
    /\ cregion.ok
    /\ IF sw * H > W * sh
       THEN <<cw, ch>> = <<Max(1, RoundDiv(sh * W, H)), sh>>
       ELSE <<cw, ch>> = <<sw, Max(1, RoundDiv(sw * H, W))>>
    /\ 1 <= cw /\ cw <= sw /\ 1 <= ch /\ ch <= sh
    /\ cw = sw \/ ch = sh
    /\ (W = H) => (cw = Min(sw, sh) /\ ch = Min(sw, sh))
    /\ cpc = "done" =>
         /\ Unwrap(cresult).ok
         /\ Unwrap(cresult).val.w = cw /\ Unwrap(cresult).val.h = ch

\* C14 witness: a 1:1 crop of a source wider than high, completed
C14_Witness ==
  /\ ByAspect /\ cpc = "done"
  /\ caspect = Some(<<1, 1>>)
  /\ cimg.w > cimg.h /\ cimg.h >= 2
  /\ Unwrap(cresult).ok
  /\ Unwrap(cresult).val.w = cimg.h /\ Unwrap(cresult).val.h = cimg.h

\* C15: in every mode, a resolved origin with x >= sw or y >= sh fails with
\* InvalidDimensions; otherwise the crop size is clamped to (sw - x, sh - y),
\* a clamped width or height of 0 fails with InvalidDimensions, and every
\* successful crop has x + w <= sw, y + h <= sh, w >= 1 and h >= 1.
C15_CropBounds ==
  (cpc = "done" /\ cregion.ok) =>
    LET x == cregion.val[1]
        y == cregion.val[2]
        w == Min(cregion.val[3], cimg.w - x)
        h == Min(cregion.val[4], cimg.h - y)
        result == Unwrap(cresult) IN
    IF x >= cimg.w \/ y >= cimg.h THEN result = Err("InvalidDimensions")
    ELSE IF w = 0 \/ h = 0 THEN result = Err("InvalidDimensions")
    ELSE /\ result.ok
         /\ result.val.w = w /\ result.val.h = h
         /\ x + result.val.w <= cimg.w /\ y + result.val.h <= cimg.h
         /\ result.val.w >= 1 /\ result.val.h >= 1

\* C15 witness: a crop by coordinates reaching past the right and bottom
\* edges, clamped to what is left of the source
C15_Witness ==
  /\ cpc = "done" /\ cregion.ok /\ Unwrap(cresult).ok
  /\ IsSome(copts.x) /\ IsSome(copts.y)
  /\ cregion.val[1] > 0 /\ cregion.val[2] > 0
  /\ cregion.val[1] + cregion.val[3] > cimg.w
  /\ cregion.val[2] + cregion.val[4] > cimg.h
  /\ Unwrap(cresult).val.w = cimg.w - cregion.val[1]
  /\ Unwrap(cresult).val.h = cimg.h - cregion.val[2]

\* C16: without an aspect ratio, a crop with an explicit x or y and no width
\* or no height fails with InvalidDimensions, whatever the gravity; so does
\* a crop with none of aspect ratio, x, y, width and height.
C16_ExplicitNeedsSize ==
  (cpc \in {"bounds", "done"} /\ IsNone(copts.aspect_ratio)) =>
    /\ ((IsSome(copts.x) \/ IsSome(copts.y))
          /\ (IsNone(copts.width) \/ IsNone(copts.height))) =>
         (cpc = "done" /\ cresult = Some(Err("InvalidDimensions")))
    /\ (IsNone(copts.x) /\ IsNone(copts.y)
          /\ IsNone(copts.width) /\ IsNone(copts.height)) =>
         (cpc = "done" /\ cresult = Some(Err("InvalidDimensions")))

\* C16 witness: y and height given, width missing, a gravity set: rejected
C16_Witness ==
  /\ cpc = "done" /\ IsNone(copts.aspect_ratio)
  /\ IsNone(copts.x) /\ IsSome(copts.y)
  /\ IsNone(copts.width) /\ IsSome(copts.height) /\ IsSome(copts.gravity)
  /\ cresult = Some(Err("InvalidDimensions"))

\* the decimal numeral of a positive integer
RECURSIVE Numeral(_)
Numeral(n) ==
  IF n < 10 THEN <<Digits[n + 1]>>
  ELSE Numeral(n \div 10) \o <<Digits[(n % 10) + 1]>>

\* a part of an aspect-ratio string that is no number: it has no digit, or a
\* character that is neither a digit, a sign nor a space
NonNumeric(part) ==
  \/ \A i \in 1..Len(part) : ~IsDigit(part[i])
  \/ \E i \in 1..Len(part) : ~IsDigit(part[i]) /\ part[i] \notin {"+", "-", " "}

\* a part that is the number zero
ZeroPart(part) == part # <<>> /\ \A i \in 1..Len(part) : part[i] = "0"

\* C17: parse_aspect_ratio returns (W, H) for the string "W:H" of every
\* positive W and H, and rejects every string with a zero part, a
\* non-numeric part or a number of ':'-separated parts other than 2; in
\* crop_image a rejected string gives InvalidDimensions.
C17_ParseAspectRatio ==
  (cpc \in {"bounds", "done"} /\ IsSome(copts.aspect_ratio)) =>
    LET str == Unwrap(copts.aspect_ratio)
        parts == SplitColon(str) IN
    /\ \A W, H \in 1..22 :
         (str = Numeral(W) \o <<":">> \o Numeral(H)) => caspect = Some(<<W, H>>)
    /\ Len(parts) # 2 => caspect = None
    /\ (\E i \in 1..Len(parts) : NonNumeric(parts[i]) \/ ZeroPart(parts[i]))
         => caspect = None
    /\ caspect = None =>
         (cpc = "done" /\ cresult = Some(Err("InvalidDimensions")))

\* C17 witness: "2:1" parsed to (2, 1) and the crop completed
C17_Witness ==
  /\ cpc = "done"
  /\ copts.aspect_ratio = Some(<<"2", ":", "1">>)
  /\ caspect = Some(<<2, 1>>)
  /\ Unwrap(cresult).ok

(***************************************************************************)
(* metadata/*.rs, decode/jpeg.rs: the header parsers.  An input is         *)
(* [len, at]: its length and its bytes at the offsets that are not zero or *)
(* that its structure names; every other byte below len is zero.  A step   *)
(* of the model is one iteration of a parser's loop.                       *)
(***************************************************************************)

\* data[i], for i < data.len()
ByteAt(data, i) == IF i \in DOMAIN data.at THEN data.at[i] ELSE 0

\* &data[start..start + n]
Slice(data, start, n) == [i \in 1..n |-> ByteAt(data, start + i - 1)]

\* u16::from_be_bytes([hi, lo]) and u16::from_le_bytes([lo, hi])
U16(hi, lo) == hi * 256 + lo

\* u32::from_be_bytes([b3, b2, b1, b0]) as usize, and from_le_bytes of the
\* reverse; every input of the model is shorter than 2^24 bytes, and a
\* value with a non-zero top byte is kept as 2^24 plus its low 24 bits
U32(b3, b2, b1, b0) ==
  (IF b3 > 0 THEN 16777216 ELSE 0) + b2 * 65536 + b1 * 256 + b0

\* the scan limit of the extractors: data.len().min(65536)
ScanWindow == 65536

\* the bytes of seq (a sequence, or the non-zero bytes of one) placed at
\* offset off
Place(seq, off) == [i \in {off + k - 1 : k \in DOMAIN seq} |-> seq[i - off + 1]]

\* the segments, chunks or blocks of a file laid out one after another from
\* offset off: each has its leading bytes and its size in the file
RECURSIVE Layout(_, _)
Layout(segs, off) ==
  IF segs = <<>> THEN [i \in {} |-> 0]
  ELSE Place(Head(segs).bytes, off)
         @@ Layout(Tail(segs), off + Head(segs).size)

RECURSIVE TotalSize(_)
TotalSize(segs) ==
  IF segs = <<>> THEN 0 ELSE Head(segs).size + TotalSize(Tail(segs))

\* the input whose structure is file: a header, its segments, and the number
\* of bytes cut from its end
FileBytes(file) ==
  LET whole == Place(file.header, 0) @@ Layout(file.segs, Len(file.header))
      len == Max(0, Len(file.header) + TotalSize(file.segs) - file.cut) IN
  [len |-> len, at |-> [i \in {j \in DOMAIN whole : j < len} |-> whole[i]]]

\* the result of parse_exif_orientation and the highest offset it read
RECURSIVE ExifEntries(_, _, _, _, _, _, _)
ExifEntries(data, start, n, big_endian, ifd_offset, i, count) ==
  LET entry_offset == ifd_offset + 2 + i * 12
      u16(offset) ==
        IF big_endian
        THEN U16(ByteAt(data, start + offset), ByteAt(data, start + offset + 1))
        ELSE U16(ByteAt(data, start + offset + 1), ByteAt(data, start + offset))
  IN
  IF i >= count \/ entry_offset + 12 > n
  THEN [val |-> None, last |-> start + entry_offset - 11]
  ELSE IF u16(entry_offset) = 274
  THEN [val |-> Some(u16(entry_offset + 8) % 256),
        last |-> start + entry_offset + 9]
  ELSE ExifEntries(data, start, n, big_endian, ifd_offset, i + 1, count)

\* parse_exif_orientation(&data[start..end])
parse_exif_orientation(data, start, end) ==
  LET n == end - start
      big_endian == Slice(data, start, 2) = <<77, 77>>
      b(i) == ByteAt(data, start + i)
      ifd_offset == IF big_endian THEN U32(b(4), b(5), b(6), b(7))
                    ELSE U32(b(7), b(6), b(5), b(4)) IN
  IF n < 8 THEN [val |-> None, last |-> -1]
  ELSE IF ifd_offset >= n \/ ifd_offset + 2 > n
  THEN [val |-> None, last |-> start + 7]
  ELSE LET num_entries ==
             IF big_endian THEN U16(b(ifd_offset), b(ifd_offset + 1))
             ELSE U16(b(ifd_offset + 1), b(ifd_offset))
           found == ExifEntries(data, start, n, big_endian, ifd_offset, 0,
                                Min(num_entries, 20)) IN
       [val |-> found.val,
        last |-> Max(Max(start + 7, start + ifd_offset + 1), found.last)]

\* the segments of the JPEG inputs: frame headers (2x3 baseline, 1x1
\* progressive, and one with zero dimensions), a scan header, a short and a
\* long table segment, a restart marker, a byte that is no marker, and the
\* JFIF, Exif (big-endian with orientation 6, little-endian with orientation
\* 9) and ICC application segments
JpegSegments ==
  { [name |-> "SOF0", size |-> 19,
     bytes |-> <<255, 192, 0, 17, 8, 0, 2, 0, 3, 3>>],
    [name |-> "SOF2", size |-> 19,
     bytes |-> <<255, 194, 0, 17, 8, 0, 1, 0, 1, 1>>],
    [name |-> "SOF0_zero", size |-> 19,
     bytes |-> <<255, 192, 0, 17, 8, 0, 0, 0, 0, 3>>],
    [name |-> "SOS", size |-> 14, bytes |-> <<255, 218, 0, 12>>],
    [name |-> "DQT", size |-> 6, bytes |-> <<255, 219, 0, 4>>],
    [name |-> "COM_long", size |-> 65529, bytes |-> <<255, 254, 255, 247>>],
    [name |-> "RST", size |-> 2, bytes |-> <<255, 208>>],
    [name |-> "junk", size |-> 1, bytes |-> <<7>>],
    [name |-> "JFIF", size |-> 18,
     bytes |-> <<255, 224, 0, 16, 74, 70, 73, 70, 0, 1, 1, 2, 0, 50>>],
    [name |-> "Exif", size |-> 36,
     bytes |-> <<255, 225, 0, 34, 69, 120, 105, 102, 0, 0,
                 77, 77, 0, 42, 0, 0, 0, 8, 0, 1,
                 1, 18, 0, 3, 0, 0, 0, 1, 0, 6>>],
    [name |-> "Exif_II", size |-> 36,
     bytes |-> <<255, 225, 0, 34, 69, 120, 105, 102, 0, 0,
                 73, 73, 42, 0, 8, 0, 0, 0, 1, 0,
                 18, 1, 3, 0, 1, 0, 0, 0, 9, 0>>],
    [name |-> "ICC", size |-> 20,
     bytes |-> <<255, 226, 0, 18, 73, 67, 67, 95, 80, 82, 79, 70, 73, 76,
                 69, 0>>] }

\* get_jpeg_metadata_fast: one iteration of the marker walk
jpeg_meta_step ==
  /\ hparser = "jpeg_meta" /\ hpc = "scan"
  /\ hpos + 4 < Min(hdata.len, ScanWindow)
  /\ LET pos == hpos
         len == hdata.len
         marker == ByteAt(hdata, pos + 1)
         length == U16(ByteAt(hdata, pos + 2), ByteAt(hdata, pos + 3))
         sof == [hacc EXCEPT
                   !.height = U16(ByteAt(hdata, pos + 5), ByteAt(hdata, pos + 6)),
                   !.width = U16(ByteAt(hdata, pos + 7), ByteAt(hdata, pos + 8)),
                   !.channels = ByteAt(hdata, pos + 9)]
         exif == parse_exif_orientation(hdata, pos + 10,
                                        Min(len, pos + length + 2)) IN
     IF ByteAt(hdata, pos) # 255
     THEN /\ hpos' = pos + 1 /\ hmax' = Max(hmax, pos)
          /\ UNCHANGED <<hacc, hpc>>
     ELSE IF marker = 255
     THEN /\ hpos' = pos + 1 /\ hmax' = Max(hmax, pos + 1)
          /\ UNCHANGED <<hacc, hpc>>
     ELSE IF marker \in {0, 1} \cup (208..217)
     THEN /\ hpos' = pos + 2 /\ hmax' = Max(hmax, pos + 1)
          /\ UNCHANGED <<hacc, hpc>>
     ELSE IF marker = 218
     THEN /\ hpc' = "break" /\ hmax' = Max(hmax, pos + 3)
          /\ UNCHANGED <<hacc, hpos>>
     ELSE
       /\ hpos' = pos + 2 + length
       /\ hpc' = hpc
       /\ CASE marker = 192 /\ pos + 9 < len ->
                 hacc' = sof /\ hmax' = Max(hmax, pos + 9)
            [] marker = 194 /\ pos + 9 < len ->
                 /\ hacc' = [sof EXCEPT !.is_progressive = TRUE]
                 /\ hmax' = Max(hmax, pos + 9)
            [] marker = 194 /\ ~(pos + 9 < len) ->
                 /\ hacc' = [hacc EXCEPT !.is_progressive = TRUE]
                 /\ hmax' = Max(hmax, pos + 3)
            [] marker = 224 /\ length > 12 /\ pos + 14 < len ->
                 IF Slice(hdata, pos + 4, 5) = <<74, 70, 73, 70, 0>>
                 THEN LET unit == ByteAt(hdata, pos + 11)
                          x_density == U16(ByteAt(hdata, pos + 12),
                                           ByteAt(hdata, pos + 13)) IN
                      /\ hacc' = [hacc EXCEPT !.density =
                                    Some(IF unit = 2
                                         THEN (x_density * 254) \div 100
                                         ELSE x_density)]
                      /\ hmax' = Max(hmax, pos + 13)
                 ELSE hacc' = hacc /\ hmax' = Max(hmax, pos + 8)
            [] marker = 225 /\ length > 8 /\ pos + 10 < len ->
                 IF Slice(hdata, pos + 4, 4) = <<69, 120, 105, 102>>
                 THEN /\ hacc' = [hacc EXCEPT !.orientation = exif.val]
                      /\ hmax' = Max(Max(hmax, pos + 7), exif.last)
                 ELSE hacc' = hacc /\ hmax' = Max(hmax, pos + 7)
            [] marker = 226 /\ length > 14 /\ pos + 16 < len ->
                 /\ hacc' = IF Slice(hdata, pos + 4, 12)
                                 = <<73, 67, 67, 95, 80, 82, 79, 70, 73, 76, 69, 0>>
                            THEN [hacc EXCEPT !.has_profile = TRUE] ELSE hacc
                 /\ hmax' = Max(hmax, pos + 15)
            [] OTHER -> hacc' = hacc /\ hmax' = Max(hmax, pos + 3)
  /\ UNCHANGED <<hfile, hdata, hparser, hresult>>
  /\ OnlyHeader

\* get_jpeg_metadata_fast: after the walk, no dimensions is an error
jpeg_meta_finish ==
  /\ hparser = "jpeg_meta"
  /\ \/ hpc = "break"
     \/ hpc = "scan" /\ ~(hpos + 4 < Min(hdata.len, ScanWindow))
  /\ hresult' = IF hacc.width = 0 \/ hacc.height = 0
                THEN Some(Err("DecodeError")) ELSE Some(Ok(hacc))
  /\ hpc' = "done"
  /\ UNCHANGED <<hfile, hdata, hparser, hpos, hacc, hmax>>
  /\ OnlyHeader

\* get_jpeg_dimensions_fast: one iteration of the marker walk
jpeg_dims_step ==
  /\ hparser = "jpeg_dims" /\ hpc = "scan"
  /\ hpos + 4 < Min(hdata.len, ScanWindow)
  /\ LET pos == hpos
         marker == ByteAt(hdata, pos + 1)
         length == U16(ByteAt(hdata, pos + 2), ByteAt(hdata, pos + 3)) IN
     IF ByteAt(hdata, pos) # 255
     THEN /\ hpos' = pos + 1 /\ hmax' = Max(hmax, pos)
          /\ UNCHANGED <<hpc, hresult>>
     ELSE IF marker = 255
     THEN /\ hpos' = pos + 1 /\ hmax' = Max(hmax, pos + 1)
          /\ UNCHANGED <<hpc, hresult>>
     ELSE IF marker \in {0, 1} \cup (208..217)
     THEN /\ hpos' = pos + 2 /\ hmax' = Max(hmax, pos + 1)
          /\ UNCHANGED <<hpc, hresult>>
     ELSE IF marker \in {192, 194} /\ pos + 9 < hdata.len
     THEN /\ hresult' = Some(Ok(
               [width |-> U16(ByteAt(hdata, pos + 7), ByteAt(hdata, pos + 8)),
                height |-> U16(ByteAt(hdata, pos + 5), ByteAt(hdata, pos + 6))]))
          /\ hpc' = "done" /\ hmax' = Max(hmax, pos + 8)
          /\ UNCHANGED hpos
     ELSE /\ hpos' = pos + 2 + length /\ hmax' = Max(hmax, pos + 3)
          /\ UNCHANGED <<hpc, hresult>>
  /\ UNCHANGED <<hfile, hdata, hparser, hacc>>
  /\ OnlyHeader

\* get_jpeg_dimensions_fast: the walk ended without a frame header
jpeg_dims_finish ==
  /\ hparser = "jpeg_dims" /\ hpc = "scan"
  /\ ~(hpos + 4 < Min(hdata.len, ScanWindow))
  /\ hresult' = Some(Err("DecodeError"))
  /\ hpc' = "done"
  /\ UNCHANGED <<hfile, hdata, hparser, hpos, hacc, hmax>>
  /\ OnlyHeader

\* the chunks of the PNG inputs: IHDR (2x3, 8-bit RGBA, interlaced), a short
\* and a long IDAT, iCCP, pHYs (2835 pixels per metre), IEND
PngChunks ==
  { [name |-> "IHDR", size |-> 25,
     bytes |-> <<0, 0, 0, 13, 73, 72, 68, 82, 0, 0, 0, 2, 0, 0, 0, 3,
                 8, 6, 0, 0, 1>>],
    [name |-> "IDAT", size |-> 14, bytes |-> <<0, 0, 0, 2, 73, 68, 65, 84>>],
    [name |-> "IDAT_long", size |-> 70012,
     bytes |-> <<0, 1, 17, 112, 73, 68, 65, 84>>],
    [name |-> "iCCP", size |-> 17, bytes |-> <<0, 0, 0, 5, 105, 67, 67, 80>>],
    [name |-> "pHYs", size |-> 21,
     bytes |-> <<0, 0, 0, 9, 112, 72, 89, 115, 0, 0, 11, 19, 0, 0, 11, 19, 1>>],
    [name |-> "IEND", size |-> 12, bytes |-> <<0, 0, 0, 0, 73, 69, 78, 68>>] }

\* parse_png_metadata up to the first chunk search: the length guard, the
\* signature, the IHDR tag and the IHDR fields
png_header ==
  /\ hparser = "png" /\ hpc = "header"
  /\ IF hdata.len < 29
     THEN /\ hresult' = Some(Ok("default")) /\ hpc' = "done"
          /\ UNCHANGED <<hacc, hmax>>
     ELSE IF Slice(hdata, 0, 8) # <<137, 80, 78, 71, 13, 10, 26, 10>>
     THEN /\ hresult' = Some(Ok("default")) /\ hpc' = "done" /\ hmax' = 7
          /\ UNCHANGED hacc
     ELSE IF Slice(hdata, 12, 4) # <<73, 72, 68, 82>>
     THEN /\ hresult' = Some(Ok("default")) /\ hpc' = "done" /\ hmax' = 15
          /\ UNCHANGED hacc
     ELSE LET color_type == ByteAt(hdata, 25) IN
          /\ hacc' = [bits_per_sample |-> ByteAt(hdata, 24),
                      has_alpha |-> color_type \in {4, 6},
                      channels |-> CASE color_type \in {0, 3} -> 1
                                     [] color_type = 4 -> 2
                                     [] color_type = 6 -> 4
                                     [] OTHER -> 3,
                      is_palette |-> color_type = 3,
                      space |-> IF color_type \in {0, 4} THEN "grayscale"
                                ELSE "srgb",
                      is_progressive |-> ByteAt(hdata, 28) = 1,
                      has_profile |-> FALSE, density |-> None]
          /\ hmax' = 28
          /\ hpc' = "iCCP"
          /\ UNCHANGED hresult
  /\ hpos' = 8
  /\ UNCHANGED <<hfile, hdata, hparser>>
  /\ OnlyHeader

\* find_png_chunk: one iteration of the search, for iCCP and then for pHYs;
\* a pHYs found gives the density
png_chunk_step ==
  /\ hparser = "png" /\ hpc \in {"iCCP", "pHYs"}
  /\ hpos + 12 <= hdata.len
  /\ LET pos == hpos
         length == U32(ByteAt(hdata, pos), ByteAt(hdata, pos + 1),
                       ByteAt(hdata, pos + 2), ByteAt(hdata, pos + 3))
         tag == IF hpc = "iCCP" THEN <<105, 67, 67, 80>>
                ELSE <<112, 72, 89, 115>>
         offset == pos + 8
         ppu_x == U32(ByteAt(hdata, offset), ByteAt(hdata, offset + 1),
                      ByteAt(hdata, offset + 2), ByteAt(hdata, offset + 3)) IN
     IF Slice(hdata, pos + 4, 4) # tag
     THEN /\ hpos' = pos + 12 + length /\ hmax' = Max(hmax, pos + 7)
          /\ UNCHANGED <<hacc, hpc, hresult>>
     ELSE IF hpc = "iCCP"
     THEN /\ hacc' = [hacc EXCEPT !.has_profile = TRUE]
          /\ hpc' = "pHYs" /\ hpos' = 8 /\ hmax' = Max(hmax, pos + 7)
          /\ UNCHANGED hresult
     ELSE LET final ==
                IF hdata.len > offset + 12 /\ ByteAt(hdata, offset + 8) = 1
                THEN [hacc EXCEPT
                        !.density = Some((ppu_x * 10000) \div 393701)]
                ELSE hacc IN
          /\ hacc' = final
          /\ hresult' = Some(Ok(final))
          /\ hpc' = "done"
          /\ hmax' = IF hdata.len > offset + 12 THEN Max(hmax, offset + 8)
                     ELSE Max(hmax, pos + 7)
          /\ UNCHANGED hpos
  /\ UNCHANGED <<hfile, hdata, hparser>>
  /\ OnlyHeader

\* find_png_chunk: the search ran off the end of the data
png_chunk_none ==
  /\ hparser = "png" /\ hpc \in {"iCCP", "pHYs"}
  /\ ~(hpos + 12 <= hdata.len)
  /\ IF hpc = "iCCP"
     THEN hpc' = "pHYs" /\ hpos' = 8 /\ UNCHANGED hresult
     ELSE hpc' = "done" /\ hresult' = Some(Ok(hacc)) /\ UNCHANGED hpos
  /\ UNCHANGED <<hfile, hdata, hparser, hacc, hmax>>
  /\ OnlyHeader

\* the chunks of the WebP inputs: VP8X animated with alpha, VP8X still,
\* VP8L, ANIM (loop count 3), a long ALPH of odd length, a short EXIF
WebpChunks ==
  { [name |-> "VP8X_anim", size |-> 18,
     bytes |-> <<86, 80, 56, 88, 10, 0, 0, 0, 18>>],
    [name |-> "VP8X", size |-> 18,
     bytes |-> <<86, 80, 56, 88, 10, 0, 0, 0, 16>>],
    [name |-> "VP8L", size |-> 14,
     bytes |-> <<86, 80, 56, 76, 6, 0, 0, 0, 47, 16>>],
    [name |-> "ANIM", size |-> 14,
     bytes |-> <<65, 78, 73, 77, 6, 0, 0, 0, 0, 0, 0, 0, 3, 0>>],
    [name |-> "ALPH_long", size |-> 70010,
     bytes |-> <<65, 76, 80, 72, 113, 17, 1, 0>>],
    [name |-> "EXIF", size |-> 12, bytes |-> <<69, 88, 73, 70, 3, 0, 0, 0>>] }

\* parse_webp_metadata up to the chunk search: the flags of the first chunk
webp_header ==
  /\ hparser = "webp" /\ hpc = "header"
  /\ LET chunk == Slice(hdata, 12, 4)
         flags == IF chunk = <<86, 80, 56, 76>> THEN ByteAt(hdata, 21)
                  ELSE ByteAt(hdata, 20)
         bit(mask) == (flags \div mask) % 2 = 1
         plain == [has_alpha |-> FALSE, is_animated |-> FALSE,
                   has_profile |-> FALSE, loop_count |-> None]
         vp8l == [plain EXCEPT !.has_alpha = bit(16)]
         vp8x == [plain EXCEPT !.has_alpha = bit(16), !.is_animated = bit(2),
                               !.has_profile = bit(32)]
         meta == IF hdata.len > 20 /\ hdata.len > 24
                 THEN CASE chunk = <<86, 80, 56, 76>> -> vp8l
                        [] chunk = <<86, 80, 56, 88>> -> vp8x
                        [] OTHER -> plain
                 ELSE plain IN
     /\ hacc' = meta
     /\ hmax' = IF hdata.len <= 20 THEN hmax
                ELSE IF hdata.len > 24 /\ chunk = <<86, 80, 56, 76>> THEN 21
                ELSE IF hdata.len > 24 /\ chunk = <<86, 80, 56, 88>> THEN 20
                ELSE 15
     /\ IF meta.is_animated
        THEN hpc' = "ANIM" /\ UNCHANGED hresult
        ELSE hpc' = "done" /\ hresult' = Some(Ok(meta))
  /\ hpos' = 12
  /\ UNCHANGED <<hfile, hdata, hparser>>
  /\ OnlyHeader

\* find_webp_chunk: one iteration of the search for ANIM; found, it gives
\* the loop count
webp_chunk_step ==
  /\ hparser = "webp" /\ hpc = "ANIM"
  /\ hpos + 8 <= hdata.len
  /\ LET pos == hpos
         length == U32(ByteAt(hdata, pos + 7), ByteAt(hdata, pos + 6),
                       ByteAt(hdata, pos + 5), ByteAt(hdata, pos + 4))
         offset == pos + 8 IN
     IF Slice(hdata, pos, 4) = <<65, 78, 73, 77>>
     THEN LET final ==
                IF hdata.len > offset + 6
                THEN [hacc EXCEPT !.loop_count =
                        Some(U16(ByteAt(hdata, offset + 5),
                                 ByteAt(hdata, offset + 4)))]
                ELSE hacc IN
          /\ hacc' = final
          /\ hresult' = Some(Ok(final))
          /\ hpc' = "done"
          /\ hmax' = IF hdata.len > offset + 6 THEN Max(hmax, offset + 5)
                     ELSE Max(hmax, pos + 3)
          /\ UNCHANGED hpos
     ELSE /\ hpos' = pos + 8 + length + (length % 2)
          /\ hmax' = Max(hmax, pos + 7)
          /\ UNCHANGED <<hacc, hpc, hresult>>
  /\ UNCHANGED <<hfile, hdata, hparser>>
  /\ OnlyHeader

\* find_webp_chunk: the search ran off the end of the data
webp_chunk_none ==
  /\ hparser = "webp" /\ hpc = "ANIM"
  /\ ~(hpos + 8 <= hdata.len)
  /\ hpc' = "done"
  /\ hresult' = Some(Ok(hacc))
  /\ UNCHANGED <<hfile, hdata, hparser, hpos, hacc, hmax>>
  /\ OnlyHeader

\* the two headers of the GIF inputs: without a global colour table, and
\* with one of two entries whose background index is 1
GifHeaders ==
  { <<71, 73, 70, 56, 57, 97, 1, 0, 1, 0, 0, 0, 0>>,
    <<71, 73, 70, 56, 57, 97, 1, 0, 1, 0, 128, 1, 0, 10, 20, 30, 40, 50, 60>> }

\* the blocks of the GIF inputs: Graphic Control Extensions with delays 5 and
\* 300, a 1x1 image, 1x1 images with a local colour table whose first colour
\* is (0x2C, 0x2C, 0x2C) and (0x3B, 0x3B, 0x3B), a comment extension, an
\* application extension of 257 full sub-blocks, the trailer
GifBlocks ==
  { [name |-> "GCE_5", size |-> 8, bytes |-> <<33, 249, 4, 0, 5, 0, 0, 0>>],
    [name |-> "GCE_300", size |-> 8, bytes |-> <<33, 249, 4, 0, 44, 1, 0, 0>>],
    [name |-> "Image", size |-> 15,
     bytes |-> <<44, 0, 0, 0, 0, 1, 0, 1, 0, 0, 2, 2, 76, 1, 0>>],
    [name |-> "Image_2C", size |-> 21,
     bytes |-> <<44, 0, 0, 0, 0, 1, 0, 1, 0, 128, 44, 44, 44, 0, 0, 0,
                 2, 2, 76, 1, 0>>],
    [name |-> "Image_3B", size |-> 21,
     bytes |-> <<44, 0, 0, 0, 0, 1, 0, 1, 0, 128, 59, 59, 59, 0, 0, 0,
                 2, 2, 76, 1, 0>>],
    [name |-> "Comment", size |-> 7, bytes |-> <<33, 254, 3, 97, 98, 99, 0>>],
    [name |-> "App_long", size |-> 65795,
     bytes |-> [k \in {1, 2} \cup {3 + 256 * j : j \in 0..256} |->
                  IF k = 1 THEN 33 ELSE 255]],
    [name |-> "Trailer", size |-> 1, bytes |-> <<59>>] }

\* the inner loop of the extension arm: skip sub-blocks until a zero size
\* byte or the end of the data; last is the highest offset read. The loop
\* is taken sixteen iterations at a time
RECURSIVE SubBlockWalk(_, _, _)
SubBlockWalk(data, pos, last) ==
  LET iter(s) ==
        IF s.done THEN s
        ELSE IF s.pos < data.len
        THEN IF ByteAt(data, s.pos) # 0
             THEN [pos |-> s.pos + ByteAt(data, s.pos) + 1, last |-> s.pos,
                   done |-> FALSE]
             ELSE [pos |-> s.pos, last |-> s.pos, done |-> TRUE]
        ELSE [pos |-> s.pos, last |-> s.last, done |-> TRUE]
      iter4(s) == iter(iter(iter(iter(s))))
      s16 == iter4(iter4(iter4(iter4(
               [pos |-> pos, last |-> last, done |-> FALSE])))) IN
  IF s16.done THEN s16 ELSE SubBlockWalk(data, s16.pos, s16.last)

\* parse_gif_metadata up to the block scan: the background colour and the
\* start of the scan after the global colour table
gif_header ==
  /\ hparser = "gif" /\ hpc = "header"
  /\ LET flags == ByteAt(hdata, 10)
         has_gct == hdata.len > 13 /\ (flags \div 128) % 2 = 1
         bg_offset == 13 + ByteAt(hdata, 11) * 3
         filled == has_gct /\ hdata.len > bg_offset + 2 IN
     /\ hacc' = [background |->
                   IF filled THEN Some(Slice(hdata, bg_offset, 3)) ELSE None,
                 pages |-> 0, delays |-> <<>>]
     /\ hpos' = IF has_gct THEN 13 + 3 * 2 ^ ((flags % 8) + 1) ELSE 13
     /\ hmax' = IF filled THEN bg_offset + 2
                ELSE IF hdata.len > 13 THEN 11 ELSE hmax
  /\ hpc' = "scan"
  /\ UNCHANGED <<hfile, hdata, hparser, hresult>>
  /\ OnlyHeader

\* parse_gif_metadata: one iteration of the block scan
gif_block_step ==
  /\ hparser = "gif" /\ hpc = "scan"
  /\ hpos < Min(hdata.len, ScanWindow)
  /\ LET pos == hpos
         block == ByteAt(hdata, pos)
         timed == /\ pos + 1 < hdata.len /\ ByteAt(hdata, pos + 1) = 249
                  /\ pos + 5 < hdata.len
         delay == U16(ByteAt(hdata, pos + 5), ByteAt(hdata, pos + 4)) * 10
         head == IF timed THEN pos + 5
                 ELSE IF pos + 1 < hdata.len THEN pos + 1 ELSE pos
         walk == SubBlockWalk(hdata, pos + 2, head) IN
     CASE block = 44 ->
            /\ hacc' = [hacc EXCEPT !.pages = @ + 1]
            /\ hpos' = pos + 10 /\ hmax' = Max(hmax, pos)
            /\ UNCHANGED hpc
       [] block = 33 ->
            /\ hacc' = IF timed
                       THEN [hacc EXCEPT !.delays = Append(@, delay)]
                       ELSE hacc
            /\ hpos' = walk.pos + 1 /\ hmax' = Max(hmax, walk.last)
            /\ UNCHANGED hpc
       [] block = 59 ->
            /\ hpc' = "break" /\ hmax' = Max(hmax, pos)
            /\ UNCHANGED <<hacc, hpos>>
       [] OTHER ->
            /\ hpos' = pos + 1 /\ hmax' = Max(hmax, pos)
            /\ UNCHANGED <<hacc, hpc>>
  /\ UNCHANGED <<hfile, hdata, hparser, hresult>>
  /\ OnlyHeader

\* parse_gif_metadata: the scan stopped, at the trailer or at the scan limit
gif_finish ==
  /\ hparser = "gif"
  /\ \/ hpc = "break"
     \/ hpc = "scan" /\ ~(hpos < Min(hdata.len, ScanWindow))
  /\ hresult' = Some(Ok([pages |-> Max(hacc.pages, 1),
                         delay |-> IF hacc.delays = <<>> THEN None
                                   ELSE Some(hacc.delays),
                         background |-> hacc.background]))
  /\ hpc' = "done"
  /\ UNCHANGED <<hfile, hdata, hparser, hpos, hacc, hmax>>
  /\ OnlyHeader

\* parse_bmp_metadata: the bit depth at offsets 28 and 29 when the length is
\* over 28, the compression at 30..33 when it is over 34. An index at or
\* beyond the length is a panic
parse_bmp_metadata ==
  /\ hparser = "bmp" /\ hpc = "header"
  /\ LET bit_depth == IF hdata.len > 28
                      THEN U16(ByteAt(hdata, 29), ByteAt(hdata, 28)) % 256
                      ELSE 24
         comp == U32(ByteAt(hdata, 33), ByteAt(hdata, 32),
                     ByteAt(hdata, 31), ByteAt(hdata, 30))
         compression == IF hdata.len > 34
                        THEN CASE comp = 0 -> "none" [] comp = 1 -> "rle8"
                               [] comp = 2 -> "rle4" [] comp = 3 -> "bitfields"
                               [] OTHER -> "unknown"
                        ELSE "none"
         alpha == hdata.len > 28 /\ bit_depth = 32 IN
     /\ hmax' = IF hdata.len > 34 THEN 33
                ELSE IF hdata.len > 28 THEN 29 ELSE hmax
     /\ hresult' =
          IF hdata.len > 28 /\ ~(29 < hdata.len)
          THEN Some(Err("panic"))
          ELSE Some(Ok([channels |-> IF alpha THEN 4 ELSE 3,
                        has_alpha |-> alpha,
                        bits_per_sample |-> Min(bit_depth, 8),
                        is_palette |-> bit_depth <= 8,
                        compression |-> compression]))
  /\ hpc' = "done"
  /\ UNCHANGED <<hfile, hdata, hparser, hpos, hacc>>
  /\ OnlyHeader

\* parse_ico_metadata: the image count at offsets 4 and 5
parse_ico_metadata ==
  /\ hparser = "ico" /\ hpc = "header"
  /\ hresult' = Some(Ok([pages |->
       IF hdata.len > 5
       THEN Some(U16(ByteAt(hdata, 5), ByteAt(hdata, 4))) ELSE None]))
  /\ hmax' = IF hdata.len > 5 THEN 5 ELSE hmax
  /\ hpc' = "done"
  /\ UNCHANGED <<hfile, hdata, hparser, hpos, hacc>>
  /\ OnlyHeader

\* the longest list of segments, chunks or blocks in an input file
MaxSegs == 3

\* the numbers of bytes cut from the end of an input file
Cuts == {0, 1, 6}

\* the lists of at most n elements of S
SeqsUpTo(S, n) == UNION {[1..k -> S] : k \in 0..n}

\* the input files: for each format its header followed by a list of
\* segments, chunks or blocks, possibly truncated; a GIF ends in a trailer;
\* a BMP has the 12-byte or the 40-byte bitmap header, followed by pixels or
\* padded rows; an ICO has its directory
HeaderFiles ==
  LET family(hs, S) == [header : hs, segs : SeqsUpTo(S, MaxSegs), cut : Cuts]
      closed(f) == [f EXCEPT !.segs = Append(@,
                      CHOOSE b \in GifBlocks : b.name = "Trailer")] IN
  [jpeg |-> family({<<255, 216>>}, JpegSegments),
   png |-> family({<<137, 80, 78, 71, 13, 10, 26, 10>>}, PngChunks),
   webp |-> family({<<82, 73, 70, 70, 0, 0, 0, 0, 87, 69, 66, 80>>},
                   WebpChunks),
   gif |-> {closed(f) : f \in family(GifHeaders,
              {b \in GifBlocks : b.name # "Trailer"})},
   bmp |-> family({<<66, 77, 30, 0, 0, 0, 0, 0, 0, 0, 26, 0, 0, 0,
                     12, 0, 0, 0, 1, 0, 1, 0, 1, 0, 24, 0>>,
                   <<66, 77, 58, 0, 0, 0, 0, 0, 0, 0, 54, 0, 0, 0,
                     40, 0, 0, 0, 1, 0, 0, 0, 1, 0, 0, 0, 1, 0, 32, 0,
                     3, 0, 0, 0>> \o [i \in 1..20 |-> 0]},
                  {[name |-> "pixel", size |-> 3, bytes |-> <<10, 20, 30>>],
                   [name |-> "row", size |-> 4, bytes |-> <<10, 20, 30>>]}),
   ico |-> family({<<0, 0, 1, 0, 2, 0>>},
                  {[name |-> "entry", size |-> 16,
                    bytes |-> <<1, 1, 0, 0, 1, 0, 32, 0>>]})]

\* a parser is handed the bytes of one input file
HeaderInit ==
  /\ \E p \in {"jpeg_meta", "jpeg_dims", "png", "webp", "gif", "bmp", "ico"} :
       /\ hparser = p
       /\ hfile \in CASE p \in {"jpeg_meta", "jpeg_dims"} -> HeaderFiles.jpeg
                      [] p = "png" -> HeaderFiles.png
                      [] p = "webp" -> HeaderFiles.webp
                      [] p = "gif" -> HeaderFiles.gif
                      [] p = "bmp" -> HeaderFiles.bmp
                      [] p = "ico" -> HeaderFiles.ico
       /\ hpc = IF p \in {"jpeg_meta", "jpeg_dims"} THEN "scan" ELSE "header"
       /\ hpos = IF p \in {"jpeg_meta", "jpeg_dims"} THEN 2 ELSE 0
       /\ hacc = IF p = "jpeg_meta"
                 THEN [width |-> 0, height |-> 0, channels |-> 3,
                       is_progressive |-> FALSE, has_profile |-> FALSE,
                       orientation |-> None, density |-> None]
                 ELSE <<>>
  /\ hdata = FileBytes(hfile)
  /\ hmax = -1
  /\ hresult = None
  /\ HeaderAlone

HeaderNext ==
  \/ jpeg_meta_step
  \/ jpeg_meta_finish
  \/ jpeg_dims_step
  \/ jpeg_dims_finish
  \/ png_header
  \/ png_chunk_step
  \/ png_chunk_none
  \/ webp_header
  \/ webp_chunk_step
  \/ webp_chunk_none
  \/ gif_header
  \/ gif_block_step
  \/ gif_finish
  \/ parse_bmp_metadata
  \/ parse_ico_metadata

SpecHeader == HeaderInit /\ [][HeaderNext]_vars

\* C18: a JPEG header parser that has finished never reports success with a
\* zero width or a zero height, and it reports DecodeError whenever the file
\* has no SOF0/SOF2 segment that lies before every SOS segment and starts
\* inside the scan window
C18_JpegNoZeroSuccess ==
  (hparser \in {"jpeg_meta", "jpeg_dims"} /\ hpc = "done") =>
    LET r == hresult[1]
        segs == hfile.segs
        off(i) == Len(hfile.header) + TotalSize(SubSeq(segs, 1, i - 1))
        sof(i) == /\ segs[i].name \in {"SOF0", "SOF2", "SOF0_zero"}
                  /\ \A j \in 1..(i - 1) : segs[j].name # "SOS"
                  /\ off(i) + 4 < Min(hdata.len, ScanWindow) IN
    /\ r.ok => r.val.width # 0 /\ r.val.height # 0
    /\ (~ \E i \in DOMAIN segs : sof(i)) => r = Err("DecodeError")

\* C19: whatever the length of the input, no header parser reads a byte at
\* an offset of 65536 or more
C19_ScanWithinWindow == hmax < ScanWindow

\* C20: for a complete GIF of at most 65536 bytes the page count is the
\* number of image blocks (at least 1), the delays are those of the Graphic
\* Control Extensions in file order, each times 10, and the scan stops at
\* the trailer
C20_GifPagesAndDelays ==
  (hparser = "gif" /\ hpc = "done" /\ hfile.cut = 0
     /\ hdata.len <= ScanWindow) =>
    LET r == hresult[1].val
        segs == hfile.segs
        images == {i \in DOMAIN segs :
                     segs[i].name \in {"Image", "Image_2C", "Image_3B"}}
        gces == SelectSeq(segs, LAMBDA b : b.name \in {"GCE_5", "GCE_300"})
        expected == [i \in DOMAIN gces |->
                       U16(gces[i].bytes[6], gces[i].bytes[5]) * 10]
        delays == IF r.delay = None THEN <<>> ELSE r.delay[1] IN
    /\ r.pages = Max(1, Cardinality(images))
    /\ delays = expected
    /\ hpos = hdata.len - 1

\* C21: the orientation of the metadata returned for a JPEG is absent or a
\* value in 1..8
C21_OrientationInRange ==
  (hparser = "jpeg_meta" /\ hpc = "done" /\ hresult[1].ok) =>
    LET orientation == hresult[1].val.orientation IN
    orientation = None \/ orientation[1] \in 1..8

\* ---------------------------------------------------------------------
\* Writing EXIF and reading it back (metadata_write.rs, metadata/utils.rs)
\* ---------------------------------------------------------------------

\* v.to_le_bytes() for a value of n bytes
to_le_bytes(v, n) == [i \in 1..n |-> (v \div 256 ^ (i - 1)) % 256]

string_to_ascii(s) == Append(s, 0)

\* build_ifd_entry without the padding of the data area
build_ifd_entry_unpadded(tag, data, data_offset, extra_data) ==
  LET type_id == IF tag = 274 THEN 3 ELSE IF tag = 37510 THEN 7 ELSE 2
      count == IF tag = 274 THEN 1 ELSE Len(data)
      value_size == IF type_id = 3 THEN 2 * count ELSE count
      offset == data_offset + Len(extra_data) IN
  [entry |-> to_le_bytes(tag, 2) \o to_le_bytes(type_id, 2)
               \o to_le_bytes(count, 4)
               \o (IF value_size <= 4
                   THEN [i \in 1..4 |-> IF i <= Len(data) THEN data[i] ELSE 0]
                   ELSE to_le_bytes(offset, 4)),
   extra |-> IF value_size <= 4 THEN extra_data ELSE extra_data \o data]

\* build_ifd_entry: the 12 bytes of the entry and the data area after it
build_ifd_entry(tag, data, data_offset, extra_data) ==
  LET type_id == IF tag = 274 THEN 3 ELSE IF tag = 37510 THEN 7 ELSE 2
      count == IF tag = 274 THEN 1 ELSE Len(data)
      value_size == IF type_id = 3 THEN 2 * count ELSE count
      offset == data_offset + Len(extra_data) IN
  [entry |-> to_le_bytes(tag, 2) \o to_le_bytes(type_id, 2)
               \o to_le_bytes(count, 4)
               \o (IF value_size <= 4
                   THEN [i \in 1..4 |-> IF i <= Len(data) THEN data[i] ELSE 0]
                   ELSE to_le_bytes(offset, 4)),
   extra |-> IF value_size <= 4 THEN extra_data
             ELSE extra_data \o data
                    \o (IF Len(data) % 2 # 0 THEN <<0>> ELSE <<>>)]

\* the loop over the entries of one IFD: the entries written and the data
\* area collected
RECURSIVE WriteEntries(_, _, _, _)
WriteEntries(entries, data_offset, ifd, extra_data) ==
  IF entries = <<>> THEN [ifd |-> ifd, extra |-> extra_data]
  ELSE LET e == build_ifd_entry(Head(entries).tag, Head(entries).data,
                                data_offset, extra_data) IN
       WriteEntries(Tail(entries), data_offset, ifd \o e.entry, e.extra)

\* the entries build_tiff_exif collects for the EXIF sub-IFD
ExifIfdEntries(options) ==
  (IF options.date_time_original # None
   THEN <<[tag |-> 36867,
           data |-> string_to_ascii(options.date_time_original[1])]>>
   ELSE <<>>)
  \o (IF options.user_comment # None
      THEN <<[tag |-> 37510,
              data |-> <<65, 83, 67, 73, 73, 0, 0, 0>>
                         \o options.user_comment[1]]>>
      ELSE <<>>)

build_tiff_exif(ifd0_entries, options) ==
  LET needs_exif_ifd == options.user_comment # None
                          \/ options.date_time_original # None
      ifd0_count == Len(ifd0_entries) + (IF needs_exif_ifd THEN 1 ELSE 0)
      data_offset == 8 + 2 + ifd0_count * 12 + 4
      ifd0 == WriteEntries(ifd0_entries, data_offset, <<>>, <<>>)
      offset == data_offset + Len(ifd0.extra)
      pointer == IF needs_exif_ifd
                 THEN to_le_bytes(34665, 2) \o <<4, 0, 1, 0, 0, 0>>
                        \o to_le_bytes(offset, 4)
                 ELSE <<>>
      exif == <<73, 73>> \o to_le_bytes(42, 2) \o to_le_bytes(8, 4)
                \o to_le_bytes(ifd0_count, 2) \o ifd0.ifd \o pointer
                \o to_le_bytes(0, 4) \o ifd0.extra
      exif_entries == ExifIfdEntries(options)
      exif_ifd_count == Len(exif_entries)
      exif_data_offset == (Len(exif) + 2) + exif_ifd_count * 12 + 4
      sub == WriteEntries(exif_entries, exif_data_offset, <<>>, <<>>) IN
  IF needs_exif_ifd
  THEN exif \o to_le_bytes(exif_ifd_count, 2) \o sub.ifd
         \o to_le_bytes(0, 4) \o sub.extra
  ELSE exif

\* the string fields of IFD0 in the order build_exif_bytes writes them, with
\* their tags
Ifd0Strings ==
  << <<"image_description", 270>>, <<"artist", 315>>, <<"copyright", 33432>>,
     <<"software", 305>>, <<"date_time", 306>>, <<"make", 271>>,
     <<"model", 272>> >>

\* the entries build_exif_bytes collects for IFD0
Ifd0Entries(options) ==
  LET present == SelectSeq(Ifd0Strings, LAMBDA f : options[f[1]] # None)
      strings == [i \in DOMAIN present |->
                    [tag |-> present[i][2],
                     data |-> string_to_ascii(options[present[i][1]][1])]]
      orientation ==
        IF options.orientation # None
        THEN <<[tag |-> 274,
                data |-> <<options.orientation[1] % 256,
                           (options.orientation[1] \div 256) % 256>>]>>
        ELSE <<>> IN
  strings \o orientation

build_exif_bytes(options) == build_tiff_exif(Ifd0Entries(options), options)

\* the most string fields set in one ExifWriteOptions
MaxFields == 3

\* the strings given to the fields: empty, inline with its terminator, out
\* of line with odd and with even length
ExifStrings == {<<>>, <<97, 98, 99>>, <<97, 98, 99, 100>>,
                <<97, 98, 99, 100, 101>>}

\* the orientations given: absent, valid ones, and one of two bytes
Orientations == {None, Some(1), Some(8), Some(256)}

StringFields ==
  {Ifd0Strings[i][1] : i \in DOMAIN Ifd0Strings}
    \cup {"date_time_original", "user_comment"}

ExifInit ==
  /\ \E S \in {T \in SUBSET StringFields : Cardinality(T) <= MaxFields} :
       \E g \in [S -> ExifStrings], o \in Orientations :
         xopts = [f \in StringFields \cup {"orientation"} |->
                    IF f = "orientation" THEN o
                    ELSE IF f \in S THEN Some(g[f]) ELSE None]
  /\ xbytes = <<>>
  /\ xpc = "build"
  /\ xread = None
  /\ ExifAlone

\* write_jpeg_exif / write_webp_exif / write_png_exif build the EXIF block
exif_build ==
  /\ xpc = "build"
  /\ xbytes' = build_exif_bytes(xopts)
  /\ xpc' = "parse"
  /\ UNCHANGED <<xopts, xread>>
  /\ OnlyExif

\* the reader parses the block written
exif_parse ==
  /\ xpc = "parse"
  /\ xread' = Some(parse_exif_orientation(
                [len |-> Len(xbytes),
                 at |-> [i \in 0..(Len(xbytes) - 1) |-> xbytes[i + 1]]],
                0, Len(xbytes)).val)
  /\ xpc' = "done"
  /\ UNCHANGED <<xopts, xbytes>>
  /\ OnlyExif

ExifNext == exif_build \/ exif_parse

SpecExif == ExifInit /\ [][ExifNext]_vars

\* the little-endian value of the n bytes at offset o of the bytes built
LeAt(o, n) ==
  LET RECURSIVE le(_)
      le(i) == IF i = n THEN 0 ELSE xbytes[o + i + 1] + 256 * le(i + 1) IN
  le(0)

\* the bytes an entry's value takes in the file, and in the data area
StoredSize(e) == IF e.tag = 274 THEN 2 ELSE Len(e.data)

\* the size of the data area taken by the entries before the k-th
RECURSIVE DataBefore(_, _)
DataBefore(entries, k) ==
  IF k = 1 THEN 0
  ELSE DataBefore(entries, k - 1)
         + (IF StoredSize(entries[k - 1]) > 4
            THEN Len(entries[k - 1].data) + (Len(entries[k - 1].data) % 2)
            ELSE 0)

\* the value of each of the entries can be read back from the IFD at start:
\* from the entry's inline slot when its count is at most 4, else from the
\* offset the entry records
Recoverable(start, entries) ==
  \A k \in DOMAIN entries :
    LET at == start + 2 + 12 * (k - 1)
        count == LeAt(at + 4, 4)
        size == IF LeAt(at + 2, 2) = 3 THEN 2 * count ELSE count
        from == IF size <= 4 THEN at + 8 ELSE LeAt(at + 8, 4) IN
    /\ LeAt(at, 2) = entries[k].tag
    /\ from + size <= Len(xbytes)
    /\ SubSeq(xbytes, from + 1, from + size) = entries[k].data

\* C22: when an orientation is written, the orientation parser reads exactly
\* that orientation back from the bytes built, and every string written can
\* be read back unchanged from the slot or offset its entry records
C22_ExifRoundTrip ==
  (xpc = "done" /\ xopts.orientation # None) =>
    /\ xread[1] = xopts.orientation
    /\ Recoverable(8, Ifd0Entries(xopts))
    /\ ExifIfdEntries(xopts) # <<>> =>
         Recoverable(LeAt(8 + 2 + 12 * Len(Ifd0Entries(xopts)) + 8, 4),
                     ExifIfdEntries(xopts))

\* the IFD at start holds slots entries, of which the first are the given
\* ones: a value of at most 4 bytes sits in its entry, a longer one at the
\* recorded offset, which is even and is where the value starts in the data
\* area that follows the IFD
IfdLaidOut(start, entries, slots) ==
  LET data_start == start + 2 + 12 * slots + 4 IN
  /\ LeAt(start, 2) = slots
  /\ \A k \in DOMAIN entries :
       LET at == start + 2 + 12 * (k - 1)
           e == entries[k]
           offset == LeAt(at + 8, 4) IN
       /\ LeAt(at, 2) = e.tag
       /\ IF StoredSize(e) <= 4
          THEN SubSeq(xbytes, at + 9, at + 8 + Len(e.data)) = e.data
          ELSE /\ offset = data_start + DataBefore(entries, k)
               /\ offset % 2 = 0
               /\ SubSeq(xbytes, offset + 1, offset + Len(e.data)) = e.data

\* C23: in the bytes built, IFD0 has one entry per field present, and one
\* more exactly when UserComment or DateTimeOriginal is present; values of
\* at most 4 bytes are inline and longer ones out of line; every offset
\* written, the sub-IFD pointer included, is even and is the position where
\* the value or the sub-IFD starts
C23_TiffLayout ==
  xpc \in {"parse", "done"} =>
    LET ifd0 == Ifd0Entries(xopts)
        sub == ExifIfdEntries(xopts)
        needs_exif_ifd == xopts.user_comment # None
                            \/ xopts.date_time_original # None
        slots == Len(ifd0) + (IF needs_exif_ifd THEN 1 ELSE 0)
        pointer_at == 8 + 2 + 12 * Len(ifd0)
        sub_start == 8 + 2 + 12 * slots + 4 + DataBefore(ifd0, Len(ifd0) + 1)
        sub_end == sub_start + 2 + 12 * Len(sub) + 4
                     + DataBefore(sub, Len(sub) + 1) IN
    /\ Len(ifd0) = Cardinality({f \in DOMAIN xopts :
                      /\ f \notin {"user_comment", "date_time_original"}
                      /\ xopts[f] # None})
    /\ IfdLaidOut(8, ifd0, slots)
    /\ IF needs_exif_ifd
       THEN /\ LeAt(pointer_at, 2) = 34665
            /\ LeAt(pointer_at + 8, 4) = sub_start
            /\ sub_start % 2 = 0
            /\ IfdLaidOut(sub_start, sub, Len(sub))
            /\ Len(xbytes) = sub_end
       ELSE Len(xbytes) = sub_start

\* three fields with out-of-line values of odd and even length, in IFD0 and
\* in the sub-IFD, have been written
C23_Witness ==
  /\ xpc = "done"
  /\ xopts.image_description = Some(<<97, 98, 99, 100>>)
  /\ xopts.artist = Some(<<97, 98, 99, 100, 101>>)
  /\ xopts.user_comment = Some(<<97, 98, 99>>)

\* ---------------------------------------------------------------------
\* ThumbHash (lib.rs)
\* ---------------------------------------------------------------------

\* the widths and heights of the inputs: around the encoder's limit of 100
ThumbDims == {1, 100, 101, 200, 300}

ThumbInit ==
  /\ kin \in [format : {"jpeg", "png", "webp", "unknown"},
              w : ThumbDims, h : ThumbDims, color : {"Rgba8"}]
  /\ kasync \in BOOLEAN
  /\ kpc = "call"
  /\ khanded = None
  /\ kresult = None
  /\ ThumbAlone

\* the body shared by thumbhash_sync and the blocking task of thumbhash: the
\* header's dimensions, the target of at most 100x100, the decode with that
\* target, the encoding of whatever the decode returned. The encoder is not
\* part of the source: on a raster over 100 in either axis it may fail
thumbhash_body ==
  \E fault \in {"none", "metadata", "decode", "encode"} :
    LET format == detect_format(kin)
        orig_w == kin.w
        orig_h == kin.h
        larger == Max(orig_w, orig_h)
        thumb_w == IF orig_w > 100 \/ orig_h > 100
                   THEN Max(RoundDiv(orig_w * 100, larger), 1) ELSE orig_w
        thumb_h == IF orig_w > 100 \/ orig_h > 100
                   THEN Max(RoundDiv(orig_h * 100, larger), 1) ELSE orig_h
        img == decode_image_with_target(kin, Some(thumb_w), Some(thumb_h)) IN
    IF ~format.ok \/ fault \in {"metadata", "decode"}
    THEN kresult' = Some(Err("DecodeError")) /\ UNCHANGED khanded
    ELSE /\ khanded' = Some(<<img.w, img.h>>)
         /\ kresult' =
              IF fault = "encode" /\ (img.w > 100 \/ img.h > 100)
              THEN Some(Err("panic"))
              ELSE Some(Ok([width |-> orig_w, height |-> orig_h]))

thumbhash_sync ==
  /\ kpc = "call" /\ ~kasync
  /\ thumbhash_body
  /\ kpc' = "done"
  /\ UNCHANGED <<kin, kasync>>
  /\ OnlyThumb

thumbhash ==
  /\ kpc = "call" /\ kasync
  /\ thumbhash_body
  /\ kpc' = "done"
  /\ UNCHANGED <<kin, kasync>>
  /\ OnlyThumb

ThumbNext == thumbhash_sync \/ thumbhash

SpecThumb == ThumbInit /\ [][ThumbNext]_vars

\* C24: the raster handed to the ThumbHash encoder is at most 100 wide and
\* at most 100 high, and the dimensions reported are the original ones
C24_ThumbRasterWithin100 ==
  (kpc = "done" /\ khanded # None) =>
    /\ khanded[1][1] <= 100 /\ khanded[1][2] <= 100
    /\ kresult[1].ok =>
         kresult[1].val = [width |-> kin.w, height |-> kin.h]

\* ---------------------------------------------------------------------
\* transform with the exif option (types.rs, transform.rs)
\* ---------------------------------------------------------------------

\* transform is called with TransformOptions whose exif field is absent or
\* set, for each output format that can carry EXIF and for PNG and the
\* default; the other options are those of TransformOptionsSet without crop
\* and resize
TransformExifInit ==
  /\ \E o \in {p \in TransformOptionsSet : p.crop = None /\ p.resize = None},
        out \in OptionOf({"Jpeg", "WebP", "Png"}),
        e \in {None,
               Some([f \in StringFields \cup {"orientation"} |->
                       IF f = "orientation" THEN Some(6) ELSE None]),
               Some([f \in StringFields \cup {"orientation"} |->
                       IF f = "artist" THEN Some(<<97, 98, 99>>) ELSE None])} :
       topts = [f \in DOMAIN o \cup {"exif"} |->
                  IF f = "exif" THEN e
                  ELSE IF f = "output" THEN out ELSE o[f]]
  /\ tin \in TransformInputs
  /\ timg = None
  /\ tpc = "decode"
  /\ tlog = <<>>
  /\ tresult = None
  /\ decodeTarget = <<None, None>>
  /\ TransformAlone

SpecTransformExif == TransformExifInit /\ [][TransformNext]_vars

\* C25: when the exif option is set and the output format is JPEG or WebP,
\* the bytes transform returns carry the EXIF block built from the option
C25_TransformWritesExif ==
  (/\ tpc = "done" /\ IsSome(tresult) /\ Unwrap(tresult).ok
   /\ IsSome(topts.exif)
   /\ topts.output \in {Some("Jpeg"), Some("WebP")}) =>
    LET bytes == Unwrap(tresult).val IN
    /\ "exif" \in DOMAIN bytes
    /\ bytes.exif = build_exif_bytes(Unwrap(topts.exif))

\* ---------------------------------------------------------------------
\* Tensor conversion (tensor.rs)
\* ---------------------------------------------------------------------

\* get_normalization_params: mean and std of each channel, as fractions
get_normalization_params(norm) ==
  LET all(m, s) == [mean |-> <<m, m, m>>, std |-> <<s, s, s>>]
      q(a, b) == [n |-> a, d |-> b] IN
  CASE norm = Some("Imagenet") ->
         [mean |-> <<q(485, 1000), q(456, 1000), q(406, 1000)>>,
          std |-> <<q(229, 1000), q(224, 1000), q(225, 1000)>>]
    [] norm = Some("Clip") ->
         [mean |-> <<q(48145466, 100000000), q(4578275, 10000000),
                     q(40821073, 100000000)>>,
          std |-> <<q(26862954, 100000000), q(26130258, 100000000),
                    q(27577711, 100000000)>>]
    [] norm = Some("ZeroOne") -> all(q(0, 1), q(1, 1))
    [] norm = Some("NegOneOne") -> all(q(1, 2), q(1, 2))
    [] OTHER -> all(q(0, 1), q(255, 1))

\* (pixel * scale - mean) * inv_std with scale = 1/255 and inv_std = 1/std,
\* as a fraction; the rounding of f32 is left out
NormalizedValue(pixel, mean, std) ==
  [n |-> (pixel * mean.d - 255 * mean.n) * std.d, d |-> 255 * mean.d * std.n]

\* the plane of a channel in the output buffer: split_at_mut(hw), twice
PlaneStart_shared(channel, hw) == 0

PlaneStart(channel, hw) == channel * hw

\* the widest image converted; the heights are 1..3, so that planes of 8 and
\* of 9 elements occur
MaxTensorWidth == 3

TensorInit ==
  /\ ndims \in (1..MaxTensorWidth) \X (1..3)
  /\ \E step \in {1, 85} :
       npixels = [j \in 0..(3 * ndims[1] * ndims[2] - 1) |-> (step * j) % 256]
  /\ nopts \in [dtype : OptionOf({"Float32", "Uint8"}),
                layout : OptionOf({"Chw", "Hwc"}),
                normalization : OptionOf({"Imagenet", "ZeroOne", "NegOneOne",
                                          "None"})]
  /\ npc = "start"
  /\ nout = <<>>
  /\ nwpos = <<>>
  /\ nwrote = <<>>
  /\ nresult = None
  /\ TensorAlone

\* image_to_tensor up to the conversion: for the CHW layouts the output
\* buffer is allocated and the three workers are spawned; the HWC layouts
\* are converted at once
image_to_tensor ==
  /\ npc = "start"
  /\ LET hw == ndims[1] * ndims[2]
         params == get_normalization_params(nopts.normalization)
         layout == UnwrapOr(nopts.layout, "Chw")
         dtype == UnwrapOr(nopts.dtype, "Float32")
         zero == IF dtype = "Float32" THEN [n |-> 0, d |-> 1] ELSE 0
         hwc == [j \in 0..(3 * hw - 1) |->
                   IF dtype = "Float32"
                   THEN NormalizedValue(npixels[j], params.mean[(j % 3) + 1],
                                        params.std[(j % 3) + 1])
                   ELSE npixels[j]] IN
     IF layout = "Chw"
     THEN /\ nout' = [j \in 0..(3 * hw - 1) |-> zero]
          /\ nwpos' = [c \in 0..2 |-> 0]
          /\ nwrote' = [j \in 0..(3 * hw - 1) |-> <<>>]
          /\ npc' = "scope"
          /\ UNCHANGED nresult
     ELSE /\ nout' = hwc
          /\ nwrote' = [j \in 0..(3 * hw - 1) |-> <<"par_iter">>]
          /\ npc' = "returned"
          /\ nresult' = Some([data |-> hwc, dtype |-> dtype,
                              layout |-> layout])
          /\ UNCHANGED nwpos
  /\ UNCHANGED <<npixels, ndims, nopts>>
  /\ OnlyTensor

\* one iteration of a channel worker: process_channel_f32, whose chunk and
\* remainder loops visit 0..hw-1 in order, or the loop of convert_to_u8_chw
chw_worker ==
  /\ npc = "scope"
  /\ \E c \in 0..2 :
       LET hw == ndims[1] * ndims[2]
           idx == nwpos[c]
           at == PlaneStart(c, hw) + idx
           params == get_normalization_params(nopts.normalization)
           pixel == npixels[idx * 3 + c] IN
       /\ idx < hw
       /\ nout' = [nout EXCEPT ![at] =
                     IF UnwrapOr(nopts.dtype, "Float32") = "Float32"
                     THEN NormalizedValue(pixel, params.mean[c + 1],
                                          params.std[c + 1])
                     ELSE pixel]
       /\ nwrote' = [nwrote EXCEPT ![at] = Append(@, c)]
       /\ nwpos' = [nwpos EXCEPT ![c] = idx + 1]
  /\ UNCHANGED <<npixels, ndims, nopts, npc, nresult>>
  /\ OnlyTensor

\* rayon::scope returns once every spawned worker has finished; the buffer
\* becomes the tensor
chw_join ==
  /\ npc = "scope"
  /\ \A c \in 0..2 : nwpos[c] = ndims[1] * ndims[2]
  /\ npc' = "returned"
  /\ nresult' = Some([data |-> nout,
                      dtype |-> UnwrapOr(nopts.dtype, "Float32"),
                      layout |-> "Chw"])
  /\ UNCHANGED <<npixels, ndims, nopts, nout, nwpos, nwrote>>
  /\ OnlyTensor

TensorNext == image_to_tensor \/ chw_worker \/ chw_join

SpecTensor == TensorInit /\ [][TensorNext]_vars

\* C26: a Float32 tensor converted with normalization None, or with none
\* given, holds the raw channel values 0..255, in both layouts; with ZeroOne
\* it holds value/255 and with NegOneOne value/255*2-1
C26_NoNormalizationIsRaw ==
  (npc = "returned" /\ Unwrap(nresult).dtype = "Float32") =>
    LET hw == ndims[1] * ndims[2]
        data == Unwrap(nresult).data
        source(j) == IF Unwrap(nresult).layout = "Chw"
                     THEN npixels[(j % hw) * 3 + (j \div hw)]
                     ELSE npixels[j] IN
    \A j \in DOMAIN data :
      CASE nopts.normalization \in {None, Some("None")} ->
             data[j].n = source(j) * data[j].d
        [] nopts.normalization = Some("ZeroOne") ->
             data[j].n * 255 = source(j) * data[j].d
        [] nopts.normalization = Some("NegOneOne") ->
             data[j].n * 255 = (2 * source(j) - 255) * data[j].d
        [] OTHER -> TRUE

\* C27: in the CHW conversion each worker writes only inside its own plane
\* and no index is written twice; the conversion returns only when the three
\* workers have finished, and then every index has been written once and
\* output[c*hw + i] = f(pixels[3*i + c]), whatever the interleaving was
C27_ChannelWorkersDisjoint ==
  (npc \in {"scope", "returned"} /\ UnwrapOr(nopts.layout, "Chw") = "Chw") =>
    LET hw == ndims[1] * ndims[2]
        params == get_normalization_params(nopts.normalization)
        f(c, pixel) == IF UnwrapOr(nopts.dtype, "Float32") = "Float32"
                       THEN NormalizedValue(pixel, params.mean[c + 1],
                                            params.std[c + 1])
                       ELSE pixel IN
    /\ \A j \in DOMAIN nwrote :
         /\ Len(nwrote[j]) <= 1
         /\ \A k \in DOMAIN nwrote[j] : nwrote[j][k] = j \div hw
    /\ npc = "returned" =>
         /\ \A c \in 0..2 : nwpos[c] = hw
         /\ \A c \in 0..2, i \in 0..(hw - 1) :
              /\ Len(nwrote[c * hw + i]) = 1
              /\ Unwrap(nresult).data[c * hw + i] = f(c, npixels[3 * i + c])

\* the workers of a 3x3 Float32 conversion have run out of step: the last
\* has finished its plane, the first has not started
C27_Witness ==
  /\ npc = "scope" /\ ndims = <<3, 3>>
  /\ UnwrapOr(nopts.dtype, "Float32") = "Float32"
  /\ nwpos[2] = 9 /\ nwpos[1] = 4 /\ nwpos[0] = 0

\* C28: no header parser reads a byte at an index that is not strictly below
\* the length of its input, so none fails with an out-of-range access
C28_ReadsBelowLength ==
  /\ hmax < hdata.len
  /\ hpc = "done" => hresult # Some(Err("panic"))

(***************************************************************************)
(* The halving loop of resize_multi_step.  The loop is sequential code: it *)
(* takes its next step whenever it has one, which is weak fairness of the  *)
(* steps of resize_image.                                                  *)
(***************************************************************************)

\* resize_multi_step is entered only without a filter override
ResizeLiveInit == ResizeInit /\ IsNone(ropts.filter)

SpecResizeLive ==
  ResizeLiveInit /\ [][ResizeNext]_vars /\ WF_vars(ResizeNext)

MaxSyncDim == 9

SyncInit ==
  /\ sin \in [format : {"jpeg", "png"}, w : 1..MaxSyncDim,
              h : 1..MaxSyncDim, color : {"Rgb8"}]
  /\ sopts \in [width : OptionOf(0..3), height : OptionOf(0..3),
                filter : {None}, fit : OptionOf(FitMode)]
  /\ spc = "start"
  /\ sdecoded = None
  /\ sresult = None
  /\ SyncAlone

\* resize_sync; the decoder and the resampler may fail
resize_sync ==
  /\ spc = "start"
  /\ \E fault \in {"none", "decode", "resize"} :
       LET img == decode_image_with_target(sin, sopts.width, sopts.height)
           resized == resize_image(img, sopts) IN
       IF fault = "decode" THEN
         /\ sresult' = Some(Err("DecodeError"))
         /\ UNCHANGED sdecoded
       ELSE
         /\ sdecoded' = Some(img)
         /\ sresult' =
              IF ~resized.ok THEN Some(Err(resized.err))
              ELSE IF fault = "resize" /\ resized.val # img
              THEN Some(Err("ProcessingError"))
              ELSE Some(encode_png(resized.val))
  /\ spc' = "done"
  /\ UNCHANGED <<sin, sopts>>
  /\ OnlySync

SyncNext == resize_sync

SpecSync == SyncInit /\ [][SyncNext]_vars

\* C29: for a JPEG input the image resize returns has the dimensions
\* calculate_dimensions gives for the original, unshrunk source dimensions,
\* in every fit mode, for every source size and every target.
C29_ShrinkKeepsFinalSize ==
  (/\ spc = "done" /\ sin.format = "jpeg"
   /\ sresult # None /\ Unwrap(sresult).ok) =>
    LET out == Unwrap(sresult).val.img
        dims == calculate_dimensions(sin.w, sin.h, sopts.width,
                                     sopts.height, sopts.fit) IN
    dims.ok /\ <<out.w, out.h>> = dims.val

====
